---- MODULE Spec2Model ----
(***************************************************************************)
(* Export engine of the AI website builder (src/unnamed/part_003), its two *)
(* helpers hexToRgb and escapeHtml, and the export procedures of the tRPC  *)
(* router (src/unnamed/part_002) over the tables of src/server/db.ts.      *)
(*                                                                         *)
(* Text.  A JavaScript string is a sequence of pieces.  Text that comes    *)
(* from the caller (titles, colours, names) is given one character per     *)
(* piece; so is every short literal of the code ("0:0", "Color/").  The    *)
(* long fixed literals of the two HTML templates are one piece each.  The  *)
(* string denoted is the concatenation of the pieces.                      *)
(***************************************************************************)
EXTENDS Integers, Sequences, FiniteSets, TLC

VARIABLES
    hex,        \* one run of hexToRgb: its input, whether it ran, its result
    esc,        \* one run of escapeHtml on a, b and a+b
    inv,        \* the invocations of the four export functions of the engine
    storage,    \* the blob store behind storagePut: key -> object written
    puts,       \* the calls of storagePut made so far, in call order
    nanoCount,  \* how many ids nanoid() has handed out
    clock,      \* the instant new Date() returns
    calls,      \* the calls of the export procedures of the router
    db,         \* the tables behind server/db.ts
    resp,       \* the response of the latest call of a projects procedure
    panel,      \* the ExportPanel component: its state and its mutations
    editor      \* the EnhancedEditor page: its state and its mutation

vars == <<hex, esc, inv, storage, puts, nanoCount, clock, calls, db, resp, panel, editor>>
pureVars == <<hex, esc>>
engineVars == <<inv, storage, puts, nanoCount, clock>>
routerVars == <<calls, db, resp>>
clientVars == <<panel, editor>>

(***************************************************************************)
(* Bounds                                                                  *)
(***************************************************************************)
MaxHexLen == 7      \* longest colour string given to hexToRgb
MaxEscLen == 3      \* longest of the two strings given to escapeHtml
MaxInv == 2         \* export invocations in one behaviour
MaxClock == 1       \* last instant the clock reaches
MaxCalls == 2       \* calls of router procedures in one behaviour
MaxClicks == 3      \* calls of handleExport in one behaviour
MaxProjects == 3    \* highest id the projects table hands out
MaxComponents == 1  \* a component may be added while the canvas holds fewer
MaxY == 100         \* lowest place, in pixels, a component is dragged to
MaxGenerating == 1  \* AI generations in flight together

\* all sequences over S of length 0..n
RECURSIVE SeqsUpTo(_, _)
SeqsUpTo(S, n) ==
    IF n = 0 THEN {<<>>}
    ELSE LET shorter == SeqsUpTo(S, n - 1)
         IN  shorter \cup {Append(s, c) : s \in {t \in shorter : Len(t) = n - 1}, c \in S}

(***************************************************************************)
(* hexToRgb                                                                *)
(***************************************************************************)
\* [a-f\d] under the i flag, and the value parseInt(_, 16) gives each digit
HexDigitValue ==
    [c \in {"0","1","2","3","4","5","6","7","8","9",
            "a","b","c","d","e","f","A","B","C","D","E","F"} |->
        CASE c = "0" -> 0  [] c = "1" -> 1  [] c = "2" -> 2  [] c = "3" -> 3
          [] c = "4" -> 4  [] c = "5" -> 5  [] c = "6" -> 6  [] c = "7" -> 7
          [] c = "8" -> 8  [] c = "9" -> 9
          [] c \in {"a", "A"} -> 10 [] c \in {"b", "B"} -> 11
          [] c \in {"c", "C"} -> 12 [] c \in {"d", "D"} -> 13
          [] c \in {"e", "E"} -> 14 [] c \in {"f", "F"} -> 15]

IsHexDigit(c) == c \in DOMAIN HexDigitValue

\* parseInt(pair, 16) for a pair of hexadecimal digits
parseInt16(pair) == 16 * HexDigitValue[pair[1]] + HexDigitValue[pair[2]]

\* /^#?([a-f\d]{2})([a-f\d]{2})([a-f\d]{2})$/i.exec(hex): the three groups,
\* or <<>> when the expression does not match
hexRegexExecUnanchored(text) ==
    LET off == IF Len(text) > 0 /\ text[1] = "#" THEN 1 ELSE 0
    IN  IF Len(text) >= off + 6 /\ \A i \in 1..6 : IsHexDigit(text[off + i])
        THEN << <<text[off + 1], text[off + 2]>>,
                <<text[off + 3], text[off + 4]>>,
                <<text[off + 5], text[off + 6]>> >>
        ELSE <<>>

hexRegexExec(text) ==
    LET off == IF Len(text) > 0 /\ text[1] = "#" THEN 1 ELSE 0
    IN  IF Len(text) = off + 6 /\ \A i \in 1..6 : IsHexDigit(text[off + i])
        THEN << <<text[off + 1], text[off + 2]>>,
                <<text[off + 3], text[off + 4]>>,
                <<text[off + 5], text[off + 6]>> >>
        ELSE <<>>

hexToRgb(text) ==
    LET result == hexRegexExec(text)
    IN  IF result # <<>>
        THEN [r |-> parseInt16(result[1]),
              g |-> parseInt16(result[2]),
              b |-> parseInt16(result[3])]
        ELSE [r |-> 0, g |-> 0, b |-> 0]

(***************************************************************************)
(* escapeHtml                                                              *)
(***************************************************************************)
\* the map of escapeHtml
escapeMap ==
    [c \in {"&", "<", ">", "\"", "'"} |->
        CASE c = "&"  -> <<"&", "a", "m", "p", ";">>
          [] c = "<"  -> <<"&", "l", "t", ";">>
          [] c = ">"  -> <<"&", "g", "t", ";">>
          [] c = "\"" -> <<"&", "q", "u", "o", "t", ";">>
          [] c = "'"  -> <<"&", "#", "0", "3", "9", ";">>]

\* the same replacements made one character class after the other, the
\* ampersand last: text.replace(/</g, ..)...replace(/&/g, "&amp;")
RECURSIVE replaceAll(_, _)
replaceAll(text, c) ==
    IF text = <<>> THEN <<>>
    ELSE (IF Head(text) = c THEN escapeMap[c] ELSE <<Head(text)>>)
             \o replaceAll(Tail(text), c)

escapeHtmlAmpLast(text) ==
    replaceAll(replaceAll(replaceAll(replaceAll(replaceAll(text, "<"), ">"), "\""), "'"), "&")

\* the replacement made for the first match only (no g flag)
RECURSIVE escapeHtmlFirstOnly(_)
escapeHtmlFirstOnly(text) ==
    IF text = <<>> THEN <<>>
    ELSE IF Head(text) \in DOMAIN escapeMap
         THEN escapeMap[Head(text)] \o Tail(text)
         ELSE <<Head(text)>> \o escapeHtmlFirstOnly(Tail(text))

\* text.replace(/[&<>"']/g, m => map[m]): one scan of the input from left to
\* right, every match replaced by its entry of the map
RECURSIVE escapeHtml(_)
escapeHtml(text) ==
    IF text = <<>> THEN <<>>
    ELSE (IF Head(text) \in DOMAIN escapeMap
          THEN escapeMap[Head(text)]
          ELSE <<Head(text)>>) \o escapeHtml(Tail(text))

(***************************************************************************)
(* Text helpers                                                            *)
(***************************************************************************)
DigitChars == <<"0", "1", "2", "3", "4", "5", "6", "7", "8", "9">>

\* `${n}` for a non-negative integer n
RECURSIVE NumberToString(_)
NumberToString(n) ==
    IF n < 10 THEN <<DigitChars[n + 1]>>
    ELSE NumberToString(n \div 10) \o <<DigitChars[(n % 10) + 1]>>

\* String.prototype.toLowerCase on the characters up to U+00FF, which are the
\* characters a text of this module holds: the letters A-Z and the capital
\* letters of Latin-1 (U+00C0-U+00DE without the sign U+00D7) have a small
\* letter, every other character (digits, signs, small letters, U+00DF,
\* U+00B5) stays; on these characters the result is as long as the text
UpperCase == <<"A","B","C","D","E","F","G","H","I","J","K","L","M",
               "N","O","P","Q","R","S","T","U","V","W","X","Y","Z",
               "À","Á","Â","Ã","Ä","Å","Æ","Ç","È","É",
               "Ê","Ë","Ì","Í","Î","Ï","Ð","Ñ","Ò","Ó",
               "Ô","Õ","Ö","Ø","Ù","Ú","Û","Ü","Ý","Þ">>
LowerCase == <<"a","b","c","d","e","f","g","h","i","j","k","l","m",
               "n","o","p","q","r","s","t","u","v","w","x","y","z",
               "à","á","â","ã","ä","å","æ","ç","è","é",
               "ê","ë","ì","í","î","ï","ð","ñ","ò","ó",
               "ô","õ","ö","ø","ù","ú","û","ü","ý","þ">>

toLowerCaseChar(c) ==
    IF \E k \in 1..Len(UpperCase) : UpperCase[k] = c
    THEN LowerCase[CHOOSE k \in 1..Len(UpperCase) : UpperCase[k] = c]
    ELSE c

toLowerCase(text) == [i \in 1..Len(text) |-> toLowerCaseChar(text[i])]

\* the characters \s matches among those up to U+00FF: tab, line feed,
\* vertical tab, form feed, carriage return, space and no-break space
WhiteSpace == {"\t", "\n", "", "\f", "\r", " ", " "}

\* text.replace(/\s+/g, "-"): every maximal run of white space becomes one "-"
RECURSIVE replaceWhitespaceRuns(_)
replaceWhitespaceRuns(text) ==
    IF text = <<>> THEN <<>>
    ELSE IF Head(text) \in WhiteSpace
         THEN IF Len(text) > 1 /\ text[2] \in WhiteSpace
              THEN replaceWhitespaceRuns(Tail(text))
              ELSE <<"-">> \o replaceWhitespaceRuns(Tail(text))
         ELSE <<Head(text)>> \o replaceWhitespaceRuns(Tail(text))

\* array.join(sep) for an array of texts
RECURSIVE join(_, _)
join(texts, sep) ==
    IF texts = <<>> THEN <<>>
    ELSE IF Len(texts) = 1 THEN texts[1]
    ELSE texts[1] \o sep \o join(Tail(texts), sep)

\* { ...over, ...base }: the keys of both, base winning
SpreadMergeBaseWins(base, over) ==
    [k \in DOMAIN base \cup DOMAIN over |->
        IF k \in DOMAIN base THEN base[k] ELSE over[k]]

\* { ...base, ...over }: the keys of both, over winning
SpreadMerge(base, over) ==
    [k \in DOMAIN base \cup DOMAIN over |->
        IF k \in DOMAIN over THEN over[k] ELSE base[k]]

\* group || { default: "#000000" }: an absent group falls back to a palette
TokenGroupFallbackPalette(designTokens, group) ==
    IF group \in DOMAIN designTokens THEN designTokens[group]
    ELSE << << <<"d", "e", "f", "a", "u", "l", "t">>,
               <<"#", "0", "0", "0", "0", "0", "0">> >> >>

\* group || {} for a group of the design tokens; a mapping is the sequence
\* of its <<name, value>> entries in Object.entries order
TokenGroup(designTokens, group) ==
    IF group \in DOMAIN designTokens THEN designTokens[group] ELSE <<>>

(***************************************************************************)
(* nanoid and storagePut                                                   *)
(***************************************************************************)
\* the k-th id nanoid() hands out, one piece of text
nanoid(k) == <<"nanoid-" \o ToString(k)>>

\* the url storagePut returns for the object written under key
StorageUrl(key) == <<"https://storage/">> \o key

\* the store after storagePut(key, data, contentType) has written
StorageWrite(store, key, data, contentType) ==
    [k \in DOMAIN store \cup {key} |->
        IF k = key THEN [data |-> data, contentType |-> contentType] ELSE store[k]]

\* what a rejected storagePut throws
StorageError == [name |-> "Error", message |-> "Storage upload failed"]

(***************************************************************************)
(* exportToFramer                                                          *)
(***************************************************************************)
FramerComponentsReversed(components) ==
    [i \in 1..Len(components) |->
        LET comp == components[Len(components) + 1 - i]
        IN [id |-> comp.id,
            name |-> comp.title,
            type |-> comp.type,
            props |-> SpreadMerge([title |-> comp.title,
                                   content |-> comp.content,
                                   backgroundColor |-> comp.bgColor,
                                   textColor |-> comp.textColor,
                                   width |-> comp.width,
                                   height |-> comp.height,
                                   x |-> comp.x,
                                   y |-> comp.y], comp.properties),
            children |-> <<>>]]

\* the descriptors with the properties spread over the descriptor itself:
\* { id, name, type, props, children, ...comp.properties }
FramerComponentsSpreadTop(components) ==
    [i \in 1..Len(components) |->
        LET comp == components[i]
        IN SpreadMerge([id |-> comp.id,
                        name |-> comp.title,
                        type |-> comp.type,
                        props |-> [title |-> comp.title,
                                   content |-> comp.content,
                                   backgroundColor |-> comp.bgColor,
                                   textColor |-> comp.textColor,
                                   width |-> comp.width,
                                   height |-> comp.height,
                                   x |-> comp.x,
                                   y |-> comp.y],
                        children |-> <<>>], comp.properties)]

\* components.map((comp) => ({ id, name, type, props, children }))
FramerComponents(components) ==
    [i \in 1..Len(components) |->
        LET comp == components[i]
        IN [id |-> comp.id,
            name |-> comp.title,
            type |-> comp.type,
            props |-> SpreadMerge([title |-> comp.title,
                                   content |-> comp.content,
                                   backgroundColor |-> comp.bgColor,
                                   textColor |-> comp.textColor,
                                   width |-> comp.width,
                                   height |-> comp.height,
                                   x |-> comp.x,
                                   y |-> comp.y], comp.properties),
            children |-> <<>>]]

\* the frame as high as its components together
FramerConfigSummedHeight(components, designTokens, projectName, now) ==
    LET RECURSIVE Sum(_)
        Sum(k) == IF k = 0 THEN 0 ELSE components[k].height + Sum(k - 1)
    IN  [version |-> "1.0.0",
         name |-> projectName,
         metadata |-> [exportedAt |-> now, format |-> "framer"],
         designTokens |-> designTokens,
         components |-> FramerComponents(components),
         frames |-> << [id |-> "frame-1",
                        name |-> "Main Frame",
                        width |-> 1440,
                        height |-> Sum(Len(components)),
                        children |-> [i \in 1..Len(components) |-> components[i].id]] >>]

\* the object framerConfig; now is the instant new Date() returns
FramerConfig(components, designTokens, projectName, now) ==
    [version |-> "1.0.0",
     name |-> projectName,
     metadata |-> [exportedAt |-> now, format |-> "framer"],
     designTokens |-> designTokens,
     components |-> FramerComponents(components),
     frames |-> << [id |-> "frame-1",
                    name |-> "Main Frame",
                    width |-> 1440,
                    height |-> Len(components) * 400,
                    children |-> [i \in 1..Len(components) |-> components[i].id]] >>]

(***************************************************************************)
(* exportToFigma                                                           *)
(***************************************************************************)
\* { r: hexToRgb(c).r / 255, g: ..., b: ..., a: 1 }; a channel v / 255 is
\* kept as the fraction [num |-> v, den |-> 255]
FigmaColor(color) ==
    [r |-> [num |-> hexToRgb(color).r, den |-> 255],
     g |-> [num |-> hexToRgb(color).g, den |-> 255],
     b |-> [num |-> hexToRgb(color).b, den |-> 255],
     a |-> 1]

FigmaSolid(color) ==
    << [blendMode |-> "NORMAL", type |-> "SOLID", color |-> FigmaColor(color)] >>

\* the FRAME nodes with width: comp.width, height: comp.height
FigmaFramesUnscaled(components) ==
    [i \in 1..Len(components) |->
        LET comp == components[i]
            idx == i - 1
        IN [id |-> NumberToString(idx) \o <<":", "0">>,
            name |-> comp.title,
            type |-> "FRAME",
            x |-> comp.x,
            y |-> comp.y,
            width |-> comp.width,
            height |-> comp.height,
            fills |-> FigmaSolid(comp.bgColor),
            children |-> << [id |-> NumberToString(idx) \o <<":", "1">>,
                             name |-> "Text",
                             type |-> "TEXT",
                             characters |-> comp.content,
                             fills |-> FigmaSolid(comp.textColor)] >>]]

\* the FRAME and TEXT nodes named after the component: `${comp.id}:0`
FigmaFramesByComponentId(components) ==
    [i \in 1..Len(components) |->
        LET comp == components[i]
        IN [id |-> comp.id \o <<":", "0">>,
            name |-> comp.title,
            type |-> "FRAME",
            x |-> comp.x,
            y |-> comp.y,
            width |-> comp.width * 10,
            height |-> comp.height * 10,
            fills |-> FigmaSolid(comp.bgColor),
            children |-> << [id |-> comp.id \o <<":", "1">>,
                             name |-> "Text",
                             type |-> "TEXT",
                             characters |-> comp.content,
                             fills |-> FigmaSolid(comp.textColor)] >>]]

\* components.map((comp, idx) => FRAME node), idx counting from 0
FigmaFrames(components) ==
    [i \in 1..Len(components) |->
        LET comp == components[i]
            idx == i - 1
        IN [id |-> NumberToString(idx) \o <<":", "0">>,
            name |-> comp.title,
            type |-> "FRAME",
            x |-> comp.x,
            y |-> comp.y,
            width |-> comp.width * 10,
            height |-> comp.height * 10,
            fills |-> FigmaSolid(comp.bgColor),
            children |-> << [id |-> NumberToString(idx) \o <<":", "1">>,
                             name |-> "Text",
                             type |-> "TEXT",
                             characters |-> comp.content,
                             fills |-> FigmaSolid(comp.textColor)] >>]]

\* the styles of Object.entries(...).reverse()
FigmaStylesReversed(designTokens, ids) ==
    LET colors == TokenGroup(designTokens, "colors")
    IN [k \in 1..Len(colors) |->
           [key |-> nanoid(ids + k),
            name |-> <<"C", "o", "l", "o", "r", "/">> \o colors[Len(colors) + 1 - k][1],
            description |-> <<"C", "o", "l", "o", "r", " ", "t", "o", "k", "e", "n", ":", " ">>
                                \o colors[Len(colors) + 1 - k][1],
            remote |-> FALSE,
            paints |-> FigmaSolid(colors[Len(colors) + 1 - k][2])]]

\* Object.entries(designTokens.colors || {}).map(([name, color]) => style);
\* the k-th style takes the (ids + k)-th id of nanoid
FigmaStyles(designTokens, ids) ==
    LET colors == TokenGroup(designTokens, "colors")
    IN [k \in 1..Len(colors) |->
           [key |-> nanoid(ids + k),
            name |-> <<"C", "o", "l", "o", "r", "/">> \o colors[k][1],
            description |-> <<"C", "o", "l", "o", "r", " ", "t", "o", "k", "e", "n", ":", " ">>
                                \o colors[k][1],
            remote |-> FALSE,
            paints |-> FigmaSolid(colors[k][2])]]

\* the object figmaDocument; ids is the number of ids nanoid gave before
FigmaDocument(components, designTokens, projectName, ids) ==
    [document |->
        [id |-> <<"0", ":", "0">>,
         name |-> projectName,
         type |-> "DOCUMENT",
         children |-> << [id |-> <<"1", ":", "0">>,
                          name |-> "Page 1",
                          type |-> "CANVAS",
                          children |-> FigmaFrames(components)] >>],
     assets |-> <<>>,
     styles |-> FigmaStyles(designTokens, ids)]

\* nanoid() calls made while figmaDocument is built
FigmaIdsUsed(components, designTokens) == Len(TokenGroup(designTokens, "colors"))

(***************************************************************************)
(* exportToWebflow                                                         *)
(***************************************************************************)
\* the div nodes with width and left in pixels: `${comp.width}px`, `${comp.x}px`
WebflowChildrenPixels(components, ids) ==
    [i \in 1..Len(components) |->
        LET comp == components[i]
        IN [_id |-> comp.id,
            tag |-> "div",
            text |-> comp.title,
            role |-> "section",
            classes |-> << <<"c","o","m","p","o","n","e","n","t","-">> \o comp.type >>,
            customAttributes |-> ("data-component-type" :> comp.type),
            style |-> [backgroundColor |-> comp.bgColor,
                       color |-> comp.textColor,
                       width |-> NumberToString(comp.width) \o <<"p", "x">>,
                       height |-> NumberToString(comp.height) \o <<"p", "x">>,
                       position |-> "relative",
                       left |-> NumberToString(comp.x) \o <<"p", "x">>,
                       top |-> NumberToString(comp.y) \o <<"p", "x">>],
            children |-> << [_id |-> nanoid(ids + i),
                             tag |-> "p",
                             text |-> comp.content] >>]]

\* components.map((comp) => div node); the i-th "p" child takes the
\* (ids + i)-th id of nanoid
WebflowChildren(components, ids) ==
    [i \in 1..Len(components) |->
        LET comp == components[i]
        IN [_id |-> comp.id,
            tag |-> "div",
            text |-> comp.title,
            role |-> "section",
            classes |-> << <<"c","o","m","p","o","n","e","n","t","-">> \o comp.type >>,
            customAttributes |-> ("data-component-type" :> comp.type),
            style |-> [backgroundColor |-> comp.bgColor,
                       color |-> comp.textColor,
                       width |-> NumberToString(comp.width) \o <<"%">>,
                       height |-> NumberToString(comp.height) \o <<"p", "x">>,
                       position |-> "relative",
                       left |-> NumberToString(comp.x) \o <<"%">>,
                       top |-> NumberToString(comp.y) \o <<"p", "x">>],
            children |-> << [_id |-> nanoid(ids + i),
                             tag |-> "p",
                             text |-> comp.content] >>]]

\* the instants the seven `new Date()` of webflowSite can read when the first
\* reads `from`: each read is made after the one before it
WebflowStamps(from) ==
    {times \in [1..7 -> from..MaxClock] : \A k \in 1..6 : times[k] <= times[k + 1]}

\* the object webflowSite; the property initialisers run in source order:
\* site _id, page _id, rootElementId, one id per component, locale _id, and
\* times[k] is what the k-th `new Date()` reads
WebflowSite(components, designTokens, projectName, ids, times) ==
    [_id |-> nanoid(ids + 1),
     createdOn |-> times[1],
     updatedOn |-> times[2],
     publishedOn |-> times[3],
     name |-> projectName,
     shortName |-> replaceWhitespaceRuns(toLowerCase(projectName)),
     lastPublishedOn |-> times[4],
     createdBy |-> "ai-builder",
     updatedBy |-> "ai-builder",
     pages |-> << [_id |-> nanoid(ids + 2),
                   createdOn |-> times[5],
                   updatedOn |-> times[6],
                   publishedOn |-> times[7],
                   name |-> "Home",
                   slug |-> "index",
                   title |-> projectName \o <<" ", "-", " ", "H", "o", "m", "e">>,
                   rootElementId |-> nanoid(ids + 3),
                   children |-> WebflowChildren(components, ids + 3)] >>,
     globalStyles |-> [colors |-> TokenGroup(designTokens, "colors"),
                       typography |-> TokenGroup(designTokens, "typography"),
                       spacing |-> TokenGroup(designTokens, "spacing")],
     cmsLocales |-> << [_id |-> nanoid(ids + 3 + Len(components) + 1),
                        name |-> "English",
                        default |-> TRUE,
                        code |-> "en"] >>]

\* nanoid() calls made while webflowSite is built
WebflowIdsUsed(components, designTokens) == 3 + Len(components) + 1

(***************************************************************************)
(* exportToHTML                                                            *)
(***************************************************************************)
\* the fixed text of the two template literals, one piece each
HtmlDocHead == "<!DOCTYPE html>\n<html lang=\"en\">\n<head>\n  <meta charset=\"UTF-8\">\n  <meta name=\"viewport\" content=\"width=device-width, initial-scale=1.0\">\n  <title>"
HtmlDocAfterTitle == "</title>\n  <style>\n    :root {\n"
HtmlDocAfterVariables == "\n    }\n\n    * {\n      margin: 0;\n      padding: 0;\n      box-sizing: border-box;\n    }\n\n    body {\n      font-family: -apple-system, BlinkMacSystemFont, 'Segoe UI', Roboto, Oxygen, Ubuntu, Cantarell, sans-serif;\n      line-height: 1.6;\n      color: #333;\n    }\n\n    .container {\n      max-width: 1440px;\n      margin: 0 auto;\n      padding: 0 20px;\n    }\n\n    .component {\n      padding: 40px 20px;\n      margin: 20px 0;\n      border-radius: 8px;\n      transition: all 0.3s ease;\n    }\n\n    .component-content {\n      max-width: 1200px;\n      margin: 0 auto;\n    }\n\n    .component-content h2 {\n      font-size: 2rem;\n      margin-bottom: 1rem;\n      font-weight: 600;\n    }\n\n    .component-content p {\n      font-size: 1rem;\n      line-height: 1.8;\n      opacity: 0.9;\n    }\n\n    /* Responsive Design */\n    @media (max-width: 768px) {\n      .component {\n        padding: 30px 15px;\n      }\n\n      .component-content h2 {\n        font-size: 1.5rem;\n      }\n\n      .component-content p {\n        font-size: 0.95rem;\n      }\n    }\n\n    @media (max-width: 480px) {\n      .component {\n        padding: 20px 10px;\n      }\n\n      .component-content h2 {\n        font-size: 1.25rem;\n      }\n\n      .component-content p {\n        font-size: 0.9rem;\n      }\n    }\n  </style>\n</head>\n<body>\n  <div class=\"container\">\n"
HtmlDocTail == "\n  </div>\n</body>\n</html>"
SectionOpen == "\n  <section class=\"component component-"
SectionStyleBg == "\" style=\"background-color: "
SectionStyleColor == "; color: "
SectionStyleWidth == "; width: "
SectionStyleHeight == "%; height: "
SectionAfterTag == "px;\">\n    <div class=\"component-content\">\n      <h2>"
SectionAfterTitle == "</h2>\n      <p>"
SectionClose == "</p>\n    </div>\n  </section>\n"

\* Object.entries(designTokens.colors || {}).map(...).join("\n")
cssVariables(designTokens) ==
    LET colors == TokenGroup(designTokens, "colors")
    IN join([k \in 1..Len(colors) |->
                <<"  --color-">> \o toLowerCase(colors[k][1]) \o <<": ">>
                    \o colors[k][2] \o <<";">>],
            <<"\n">>)

\* the section of one component
Section(comp) ==
    <<SectionOpen>> \o comp.type
        \o <<SectionStyleBg>> \o comp.bgColor
        \o <<SectionStyleColor>> \o comp.textColor
        \o <<SectionStyleWidth>> \o NumberToString(comp.width)
        \o <<SectionStyleHeight>> \o NumberToString(comp.height)
        \o <<SectionAfterTag>> \o escapeHtml(comp.title)
        \o <<SectionAfterTitle>> \o escapeHtml(comp.content)
        \o <<SectionClose>>

\* an empty list rendered as one placeholder section
componentsHTMLPlaceholder(components) ==
    IF components = <<>>
    THEN <<SectionOpen>> \o <<"e", "m", "p", "t", "y">> \o <<SectionClose>>
    ELSE join([i \in 1..Len(components) |-> Section(components[i])], <<"\n">>)

\* components.map(section).join("\n")
componentsHTML(components) ==
    join([i \in 1..Len(components) |-> Section(components[i])], <<"\n">>)

\* the string htmlContent
HtmlContent(components, designTokens, projectName) ==
    <<HtmlDocHead>> \o escapeHtml(projectName)
        \o <<HtmlDocAfterTitle>> \o cssVariables(designTokens)
        \o <<HtmlDocAfterVariables>> \o componentsHTML(components)
        \o <<HtmlDocTail>>

(***************************************************************************)
(* Storage keys and download names of the four export functions           *)
(***************************************************************************)
ExportsDir(projectName) == <<"e", "x", "p", "o", "r", "t", "s", "/">> \o projectName \o <<"/">>
DotJson == <<".", "j", "s", "o", "n">>
DotHtml == <<".", "h", "t", "m", "l">>

\* a key without the id of nanoid: `exports/${projectName}/framer.json`
FramerFileKeyNoId(projectName, id) ==
    ExportsDir(projectName) \o <<"f", "r", "a", "m", "e", "r">> \o DotJson

\* `exports/${projectName}/framer-${nanoid()}.json`
FramerFileKey(projectName, id) ==
    ExportsDir(projectName) \o <<"f", "r", "a", "m", "e", "r", "-">> \o id \o DotJson

\* `exports/${projectName}/figma-${nanoid()}.json`
FigmaFileKey(projectName, id) ==
    ExportsDir(projectName) \o <<"f", "i", "g", "m", "a", "-">> \o id \o DotJson

\* `exports/${projectName}/webflow-${nanoid()}.json`
WebflowFileKey(projectName, id) ==
    ExportsDir(projectName) \o <<"w", "e", "b", "f", "l", "o", "w", "-">> \o id \o DotJson

\* `exports/${projectName}/html-${nanoid()}.html`
HtmlFileKey(projectName, id) ==
    ExportsDir(projectName) \o <<"h", "t", "m", "l", "-">> \o id \o DotHtml

\* one pattern for all four: `${projectName}-${format}.${ext}`
ExportFileNameUniform(format, projectName) ==
    CASE format = "framer"  -> projectName \o <<"-", "f", "r", "a", "m", "e", "r">> \o DotJson
      [] format = "figma"   -> projectName \o <<"-", "f", "i", "g", "m", "a">> \o DotJson
      [] format = "webflow" -> projectName \o <<"-", "w", "e", "b", "f", "l", "o", "w">> \o DotJson
      [] format = "html"    -> projectName \o <<"-", "h", "t", "m", "l">> \o DotHtml

\* the fileName of the returned object, per export function
ExportFileName(format, projectName) ==
    CASE format = "framer"  -> projectName \o <<"-", "f", "r", "a", "m", "e", "r">> \o DotJson
      [] format = "figma"   -> projectName \o <<"-", "f", "i", "g", "m", "a">> \o DotJson
      [] format = "webflow" -> projectName \o <<"-", "w", "e", "b", "f", "l", "o", "w">> \o DotJson
      [] format = "html"    -> projectName \o DotHtml

(***************************************************************************)
(* Inputs of the export functions                                          *)
(***************************************************************************)
HeroComponent ==
    [id |-> <<"c", "1">>, type |-> <<"h", "e", "r", "o">>,
     title |-> <<"A", "<", "b", ">">>, content |-> <<"Q", "&", "A">>,
     x |-> 0, y |-> 0, width |-> 100, height |-> 400,
     bgColor |-> <<"#", "3", "B", "8", "2", "F", "6">>,
     textColor |-> <<"#", "F", "F", "F", "F", "F", "F">>,
     properties |-> <<>>]

TextComponent ==
    [id |-> <<"c", "2">>, type |-> <<"t", "e", "x", "t">>,
     title |-> <<"T", "2">>, content |-> <<"\"", "h", "i", "'">>,
     x |-> 10, y |-> 20, width |-> 50, height |-> 30,
     bgColor |-> <<"r", "e", "d">>,
     textColor |-> <<"0", "0", "0", "0", "0", "0">>,
     properties |-> [width |-> 75, variant |-> <<"w", "i", "d", "e">>,
                     id |-> <<"p", "1">>, name |-> <<"N">>,
                     type |-> <<"b", "o", "x">>, children |-> << <<"k">> >>]]

\* a component whose type holds markup: a"><section class="b
MarkupTypeComponent ==
    [id |-> <<"c", "3">>,
     type |-> <<"a", "\"", ">", "<", "s", "e", "c", "t", "i", "o", "n", " ",
                "c", "l", "a", "s", "s", "=", "\"", "b">>,
     title |-> <<"T", "3">>, content |-> <<"o", "k">>,
     x |-> 0, y |-> 0, width |-> 100, height |-> 50,
     bgColor |-> <<"#", "F", "F", "F", "F", "F", "F">>,
     textColor |-> <<"#", "0", "0", "0", "0", "0", "0">>,
     properties |-> <<>>]

AllTokens ==
    [colors |-> << << <<"P", "r", "i", "m", "a", "r", "y">>, <<"#", "3", "B", "8", "2", "F", "6">> >>,
                   << <<"b", "a", "d">>, <<"b", "l", "u", "e">> >> >>,
     typography |-> << << <<"b", "o", "d", "y", "S", "i", "z", "e">>, <<"1", "r", "e", "m">> >> >>,
     spacing |-> << << <<"m", "d">>, <<"1", "r", "e", "m">> >> >>]

ColorTokensOnly ==
    [colors |-> << << <<"a", "c", "c", "e", "n", "t">>, <<"#", "F", "5", "9", "E", "0", "B">> >> >>]

NoTokens == <<>>

\* the designs given to the export functions: one without components and
\* tokens, one with every token group, one with colours only and white space
\* in its name
EmptyDesign ==
    [components |-> <<>>, designTokens |-> NoTokens,
     projectName |-> <<"S", "h", "o", "p">>]

ShopDesign ==
    [components |-> <<HeroComponent, TextComponent>>, designTokens |-> AllTokens,
     projectName |-> <<"S", "h", "o", "p">>]

SiteDesign ==
    [components |-> <<TextComponent, HeroComponent>>, designTokens |-> ColorTokensOnly,
     projectName |-> <<"M", "y", " ", "S", "i", "t", "e">>]

\* the designs that hold components, and those that lack components or
\* token groups
Designs == {ShopDesign, SiteDesign}
LackingDesigns == {EmptyDesign, SiteDesign}

\* the designs given to exportToHTML when the markup itself is looked at
MarkupDesigns ==
    { [components |-> <<>>, designTokens |-> NoTokens,
       projectName |-> <<"S", "h", "o", "p">>],
      [components |-> <<HeroComponent, TextComponent>>, designTokens |-> AllTokens,
       projectName |-> <<"S", "h", "o", "p">>],
      [components |-> <<MarkupTypeComponent>>, designTokens |-> NoTokens,
       projectName |-> <<"S", "h", "o", "p">>],
      [components |-> <<HeroComponent, MarkupTypeComponent>>, designTokens |-> ColorTokensOnly,
       projectName |-> <<"S", "h", "o", "p">>] }

(***************************************************************************)
(* The export functions as steps                                           *)
(***************************************************************************)
NoDesign == [components |-> <<>>, designTokens |-> <<>>, projectName |-> <<>>]

IdleInvocation ==
    [status |-> "idle", format |-> "none", input |-> NoDesign,
     fileKey |-> <<>>, result |-> <<>>, error |-> <<>>]

\* the i-th invocation is the i-th call made
MayStart(i) ==
    /\ inv[i].status = "idle"
    /\ i > 1 => inv[i - 1].status # "idle"

\* the invocation reaches `await storagePut(fileKey, buffer, contentType)`
CallStoragePut(i, format, d, data, fileKey, contentType) ==
    /\ inv' = [inv EXCEPT ![i] = [status |-> "awaiting", format |-> format, input |-> d,
                                  fileKey |-> fileKey, result |-> <<>>, error |-> <<>>]]
    /\ puts' = Append(puts, [by |-> <<"engine", i>>, key |-> fileKey, data |-> data,
                             contentType |-> contentType])

exportToFramer(i, d) ==
    /\ MayStart(i)
    /\ CallStoragePut(i, "framer", d,
                      FramerConfig(d.components, d.designTokens, d.projectName, clock),
                      FramerFileKey(d.projectName, nanoid(nanoCount + 1)),
                      "application/json")
    /\ nanoCount' = nanoCount + 1
    /\ UNCHANGED <<storage, clock, pureVars, routerVars, clientVars>>

exportToFigma(i, d) ==
    /\ MayStart(i)
    /\ LET used == FigmaIdsUsed(d.components, d.designTokens)
       IN  /\ CallStoragePut(i, "figma", d,
                             FigmaDocument(d.components, d.designTokens, d.projectName, nanoCount),
                             FigmaFileKey(d.projectName, nanoid(nanoCount + used + 1)),
                             "application/json")
           /\ nanoCount' = nanoCount + used + 1
    /\ UNCHANGED <<storage, clock, pureVars, routerVars, clientVars>>

exportToWebflow(i, d) ==
    /\ MayStart(i)
    /\ LET used == WebflowIdsUsed(d.components, d.designTokens)
       IN  \E times \in WebflowStamps(clock) :
               /\ CallStoragePut(i, "webflow", d,
                                 WebflowSite(d.components, d.designTokens, d.projectName,
                                             nanoCount, times),
                                 WebflowFileKey(d.projectName, nanoid(nanoCount + used + 1)),
                                 "application/json")
               /\ nanoCount' = nanoCount + used + 1
               /\ clock' = times[7]
    /\ UNCHANGED <<storage, pureVars, routerVars, clientVars>>

exportToHTML(i, d) ==
    /\ MayStart(i)
    /\ CallStoragePut(i, "html", d,
                      HtmlContent(d.components, d.designTokens, d.projectName),
                      HtmlFileKey(d.projectName, nanoid(nanoCount + 1)),
                      "text/html")
    /\ nanoCount' = nanoCount + 1
    /\ UNCHANGED <<storage, clock, pureVars, routerVars, clientVars>>

\* the put of invocation i that is in flight: its last call of storagePut
PutsBy(i) == {k \in 1..Len(puts) : puts[k].by = <<"engine", i>>}

\* the key and buffer kept in one module-level slot: the latest call wins
PendingPutShared(i) == puts[Len(puts)]

PendingPut(i) == puts[CHOOSE k \in PutsBy(i) : \A m \in PutsBy(i) : m <= k]

\* a rejected put is issued again instead of ending the invocation
storagePutRejectsRetry(i) ==
    /\ inv[i].status = "awaiting"
    /\ Cardinality(PutsBy(i)) < 2
    /\ puts' = Append(puts, PendingPut(i))
    /\ UNCHANGED <<inv, storage, nanoCount, clock, pureVars, routerVars, clientVars>>

\* storagePut resolves: the object is stored and the function returns
\* { url, fileKey, format, fileName }
storagePutResolves(i) ==
    /\ inv[i].status = "awaiting"
    /\ LET put == PendingPut(i)
       IN  /\ storage' = StorageWrite(storage, put.key, put.data, put.contentType)
           /\ inv' = [inv EXCEPT
                  ![i].status = "done",
                  ![i].result = [url |-> StorageUrl(put.key),
                                 fileKey |-> inv[i].fileKey,
                                 format |-> inv[i].format,
                                 fileName |-> ExportFileName(inv[i].format,
                                                             inv[i].input.projectName)]]
    /\ UNCHANGED <<puts, nanoCount, clock, pureVars, routerVars, clientVars>>

\* storagePut rejects: nothing catches the rejection, the function throws it
storagePutRejects(i) ==
    /\ inv[i].status = "awaiting"
    /\ inv' = [inv EXCEPT ![i].status = "failed", ![i].error = StorageError]
    /\ UNCHANGED <<storage, puts, nanoCount, clock, pureVars, routerVars, clientVars>>

\* time passes
Tick ==
    /\ clock < MaxClock
    /\ clock' = clock + 1
    /\ UNCHANGED <<inv, storage, puts, nanoCount, pureVars, routerVars, clientVars>>

(***************************************************************************)
(* The tables of server/db.ts                                              *)
(***************************************************************************)
Users == {1, 2}
ProjectIds == {1, 2}
DesignIds == {1, 2, 3}

\* a JSON array column: Array.isArray is true of it
JsonArray(items) == [isArray |-> TRUE, items |-> items]
\* a JSON object column: Array.isArray is false of it
JsonObject == [isArray |-> FALSE, items |-> <<>>]

\* two projects of two users; design 1 belongs to project 1, design 2 to
\* project 2; no design has id 3 yet; nextProjectId, nextDesignId and
\* nextAssetId are the auto-increment counters of the tables; assets 1 and 2
\* belong to project 1, assets 3 and 4 to project 2; no image has been
\* generated
InitialDb ==
    [projects |-> (1 :> [id |-> 1, userId |-> 1, name |-> <<"S", "h", "o", "p">>,
                         status |-> "draft"]
                @@ 2 :> [id |-> 2, userId |-> 2, name |-> <<"B", "l", "o", "g">>,
                         status |-> "draft"]),
     nextProjectId |-> 3,
     nextDesignId |-> 3,
     nextAssetId |-> 5,
     images |-> <<>>,
     assets |-> (1 :> [id |-> 1, projectId |-> 1, assetType |-> "image", fileName |-> "logo.png"]
              @@ 2 :> [id |-> 2, projectId |-> 1, assetType |-> "font", fileName |-> "inter.woff"]
              @@ 3 :> [id |-> 3, projectId |-> 2, assetType |-> "image", fileName |-> "hero.jpg"]
              @@ 4 :> [id |-> 4, projectId |-> 2, assetType |-> "icon", fileName |-> "star.svg"]),
     designs |-> (1 :> [id |-> 1, projectId |-> 1, name |-> <<"H", "o", "m", "e">>,
                        designData |-> JsonArray(<<
                            [id |-> <<"s", "1">>, title |-> <<"A", "<", "b", ">">>,
                             content |-> <<"Q", "&", "A">>],
                            [content |-> <<"h", "i">>] >>),
                        designTokens |-> AllTokens]
               @@ 2 :> [id |-> 2, projectId |-> 2, name |-> <<"B", "l", "o", "g">>,
                        designData |-> JsonObject,
                        designTokens |-> NoTokens]),
     exports |-> <<>>]

\* a lookup by id alone: where(eq(projects.id, projectId))
getProjectByIdAnyOwner(projectId, userId) ==
    {row \in {db.projects[k] : k \in DOMAIN db.projects} : row.id = projectId}

\* db.getProjectById(projectId, userId): the rows with that id and owner
getProjectById(projectId, userId) ==
    {row \in {db.projects[k] : k \in DOMAIN db.projects} :
        row.id = projectId /\ row.userId = userId}

\* db.getDesignById(designId): the rows with that id
getDesignById(designId) ==
    {row \in {db.designs[k] : k \in DOMAIN db.designs} : row.id = designId}

\* the row db.createExport inserts and selects back; its id is the next
\* auto-increment value
ExportRow(projectId, designId, exportType, fileUrl, fileKey, exportData, createdAt) ==
    [id |-> Len(db.exports) + 1,
     projectId |-> projectId,
     designId |-> designId,
     exportType |-> exportType,
     fileUrl |-> fileUrl,
     fileKey |-> fileKey,
     exportData |-> exportData,
     createdAt |-> createdAt]

\* new TRPCError({ code })
TRPCError(code, message) == [name |-> "TRPCError", code |-> code, message |-> message]

(***************************************************************************)
(* Calls of the procedures of the router                                   *)
(*                                                                         *)
(* A procedure runs as a chain of awaits; between two awaits the event     *)
(* loop runs the steps of other calls.  A call is a record that keeps      *)
(* what the procedure holds in its locals between the awaits; each action  *)
(* below is one statement on the database or one settlement of a promise,  *)
(* together with the synchronous code that follows it up to the next       *)
(* await.  The first statement of a procedure is the step that starts the  *)
(* call.                                                                   *)
(***************************************************************************)
IdleCall ==
    [status |-> "idle", proc |-> "none", format |-> "none", user |-> 0,
     projectId |-> 0, designId |-> 0, input |-> <<>>, project |-> {}, design |-> {},
     insertId |-> 0, fileKey |-> <<>>, result |-> <<>>, error |-> <<>>]

\* the c-th call is the c-th call made
MayCall(c) ==
    /\ calls[c].status = "idle"
    /\ c > 1 => calls[c - 1].status # "idle"

\* a call of proc by user, naming a project
Begin(proc, user, projectId) ==
    [IdleCall EXCEPT !.proc = proc, !.user = user, !.projectId = projectId]

\* the call has thrown
Fail(call, error) == [call EXCEPT !.status = "failed", !.error = error]

\* throw new Error("Database not available"), of the create functions of db.ts
DatabaseError == [name |-> "Error", message |-> "Database not available"]

(***************************************************************************)
(* The projects procedures of the router                                   *)
(***************************************************************************)
\* db.getUserProjects(userId): the rows of that owner (their order, by
\* updatedAt, is left out)
getUserProjects(userId) ==
    {row \in {db.projects[k] : k \in DOMAIN db.projects} : row.userId = userId}

\* the projects table after db.createProject(userId, data) inserted a row
createProject(projects, id, userId, data) ==
    [k \in DOMAIN projects \cup {id} |->
        IF k = id THEN [id |-> id, userId |-> userId, name |-> data.name, status |-> "draft"]
        ELSE projects[k]]

\* the select that ends db.createProject: where(eq(projects.id, projectId))
createdProject(projectId) ==
    {row \in {db.projects[k] : k \in DOMAIN db.projects} : row.id = projectId}

\* the projects table after update(projects).set(data).where(id and userId)
updateProject(projects, projectId, userId, data) ==
    [k \in DOMAIN projects |->
        IF projects[k].id = projectId /\ projects[k].userId = userId
        THEN SpreadMerge(projects[k], data)
        ELSE projects[k]]

\* the projects table after delete(projects).where(id and userId)
deleteProject(projects, projectId, userId) ==
    [k \in {m \in DOMAIN projects :
                ~(projects[m].id = projectId /\ projects[m].userId = userId)} |->
        projects[k]]

\* the inputs of projects.create and projects.update
ProjectInputs == { [name |-> <<"N", "e", "w">>] }
ProjectUpdates == { [name |-> <<"N", "e", "w">>], [status |-> "published"] }

\* a response: the procedure, its caller and projectId, and either an error
\* or a value; kind tells a row from a list, true and undefined
NoError == [name |-> "none", code |-> "", message |-> ""]
NoResponse ==
    [proc |-> "none", user |-> 0, projectId |-> 0, error |-> NoError,
     kind |-> "none", value |-> {}]

Responded(proc, user, projectId, kind, value) ==
    [proc |-> proc, user |-> user, projectId |-> projectId, error |-> NoError,
     kind |-> kind, value |-> value]

Threw(proc, user, projectId, error) ==
    [proc |-> proc, user |-> user, projectId |-> projectId, error |-> error,
     kind |-> "error", value |-> {}]

\* a row, or undefined when the select found none
RowOrUndefined(rows) == IF rows = {} THEN "undefined" ELSE "row"

\* the lookup that opens a procedure: db.getProjectById(projectId, user),
\* NOT_FOUND thrown when there is no such row; the call keeps the row
ProjectLookup(c, name, call) ==
    LET project == getProjectById(call.projectId, call.user)
    IN  IF project = {}
        THEN /\ calls' = [calls EXCEPT ![c] = Fail(call, TRPCError("NOT_FOUND", ""))]
             /\ resp' = Threw(name, call.user, call.projectId, TRPCError("NOT_FOUND", ""))
        ELSE /\ calls' = [calls EXCEPT ![c] =
                    [call EXCEPT !.status = "found", !.project = project]]
             /\ resp' = resp

\* projects.list
projects_list(c, user) ==
    /\ MayCall(c)
    /\ calls' = [calls EXCEPT ![c] = [Begin("projects.list", user, 0) EXCEPT !.status = "done"]]
    /\ resp' = Responded("list", user, 0, "rows", getUserProjects(user))
    /\ UNCHANGED <<db, pureVars, engineVars, clientVars>>

\* projects.create up to the insert of db.createProject
projects_create(c, user, input) ==
    /\ MayCall(c)
    /\ db.nextProjectId <= MaxProjects
    /\ db' = [db EXCEPT !.projects = createProject(@, db.nextProjectId, user, input),
                        !.nextProjectId = @ + 1]
    /\ calls' = [calls EXCEPT ![c] =
           [Begin("projects.create", user, db.nextProjectId) EXCEPT
               !.status = "inserted", !.input = input, !.insertId = db.nextProjectId]]
    /\ UNCHANGED <<resp, pureVars, engineVars, clientVars>>

\* db.createProject selects the row of its insertId and returns created[0]
createProjectReturns(c) ==
    /\ calls[c].proc = "projects.create" /\ calls[c].status = "inserted"
    /\ LET created == createdProject(calls[c].insertId)
       IN  resp' = Responded("create", calls[c].user, calls[c].insertId,
                             RowOrUndefined(created), created)
    /\ calls' = [calls EXCEPT ![c].status = "done"]
    /\ UNCHANGED <<db, pureVars, engineVars, clientVars>>

\* projects.get
projects_get(c, user, projectId) ==
    /\ MayCall(c)
    /\ LET call == Begin("projects.get", user, projectId)
           project == getProjectById(projectId, user)
       IN  IF project = {}
           THEN /\ calls' = [calls EXCEPT ![c] = Fail(call, TRPCError("NOT_FOUND", ""))]
                /\ resp' = Threw("get", user, projectId, TRPCError("NOT_FOUND", ""))
           ELSE /\ calls' = [calls EXCEPT ![c] = [call EXCEPT !.status = "done"]]
                /\ resp' = Responded("get", user, projectId, "row", project)
    /\ UNCHANGED <<db, pureVars, engineVars, clientVars>>

\* projects.update up to its lookup
projects_update(c, user, projectId, data) ==
    /\ MayCall(c)
    /\ ProjectLookup(c, "update",
           [Begin("projects.update", user, projectId) EXCEPT !.input = data])
    /\ UNCHANGED <<db, pureVars, engineVars, clientVars>>

\* the UPDATE of db.updateProject
updateProjectUpdates(c) ==
    /\ calls[c].proc = "projects.update" /\ calls[c].status = "found"
    /\ db' = [db EXCEPT !.projects =
                 updateProject(@, calls[c].projectId, calls[c].user, calls[c].input)]
    /\ calls' = [calls EXCEPT ![c].status = "updated"]
    /\ UNCHANGED <<resp, pureVars, engineVars, clientVars>>

\* db.updateProject returns getProjectById(projectId, userId)
updateProjectReturns(c) ==
    /\ calls[c].proc = "projects.update" /\ calls[c].status = "updated"
    /\ LET row == getProjectById(calls[c].projectId, calls[c].user)
       IN  resp' = Responded("update", calls[c].user, calls[c].projectId,
                             RowOrUndefined(row), row)
    /\ calls' = [calls EXCEPT ![c].status = "done"]
    /\ UNCHANGED <<db, pureVars, engineVars, clientVars>>

\* projects.delete up to its lookup
projects_delete(c, user, projectId) ==
    /\ MayCall(c)
    /\ ProjectLookup(c, "delete", Begin("projects.delete", user, projectId))
    /\ UNCHANGED <<db, pureVars, engineVars, clientVars>>

\* the DELETE of db.deleteProject, which returns true
deleteProjectDeletes(c) ==
    /\ calls[c].proc = "projects.delete" /\ calls[c].status = "found"
    /\ db' = [db EXCEPT !.projects = deleteProject(@, calls[c].projectId, calls[c].user)]
    /\ resp' = Responded("delete", calls[c].user, calls[c].projectId, "true", {})
    /\ calls' = [calls EXCEPT ![c].status = "done"]
    /\ UNCHANGED <<pureVars, engineVars, clientVars>>

(***************************************************************************)
(* The assets procedures of the router and db.createProjectAsset           *)
(***************************************************************************)
AssetIds == {1, 2, 3, 4, 5}

\* the data given to db.createProjectAsset
AssetInputs == { [assetType |-> "image", fileName |-> "new.png"] }

\* db.getProjectAssets(projectId): the rows of that project (their order,
\* by createdAt, is left out)
getProjectAssets(projectId) ==
    {row \in {db.assets[k] : k \in DOMAIN db.assets} : row.projectId = projectId}

\* the projectAssets table after the insert of db.createProjectAsset
insertProjectAsset(assets, id, projectId, data) ==
    [k \in DOMAIN assets \cup {id} |->
        IF k = id THEN [id |-> id, projectId |-> projectId,
                        assetType |-> data.assetType, fileName |-> data.fileName]
        ELSE assets[k]]

\* the select that ends db.createProjectAsset
createdProjectAsset(assetId) ==
    {row \in {db.assets[k] : k \in DOMAIN db.assets} : row.id = assetId}

\* the projectAssets table after delete(projectAssets).where(id = assetId)
deleteProjectAsset(assets, assetId) ==
    [k \in {m \in DOMAIN assets : assets[m].id # assetId} |-> assets[k]]

\* assets.list up to its lookup
assets_list(c, user, projectId) ==
    /\ MayCall(c)
    /\ ProjectLookup(c, "assets.list", Begin("assets.list", user, projectId))
    /\ UNCHANGED <<db, pureVars, engineVars, clientVars>>

\* assets.list returns db.getProjectAssets(projectId)
getProjectAssetsReturns(c) ==
    /\ calls[c].proc = "assets.list" /\ calls[c].status = "found"
    /\ resp' = Responded("assets.list", calls[c].user, calls[c].projectId, "rows",
                         getProjectAssets(calls[c].projectId))
    /\ calls' = [calls EXCEPT ![c].status = "done"]
    /\ UNCHANGED <<db, pureVars, engineVars, clientVars>>

\* assets.delete: db.deleteProjectAsset(input.assetId), which returns true;
\* the response names the asset in place of a project
assets_delete(c, user, assetId) ==
    /\ MayCall(c)
    /\ db' = [db EXCEPT !.assets = deleteProjectAsset(@, assetId)]
    /\ resp' = Responded("assets.delete", user, assetId, "true", {})
    /\ calls' = [calls EXCEPT ![c] =
           [Begin("assets.delete", user, 0) EXCEPT !.status = "done", !.insertId = assetId]]
    /\ UNCHANGED <<pureVars, engineVars, clientVars>>

\* db.createProjectAsset(projectId, data) up to its insert; the function has
\* no caller in the router and knows no user
createProjectAsset(c, projectId, data) ==
    /\ MayCall(c)
    /\ db' = [db EXCEPT !.assets = insertProjectAsset(@, db.nextAssetId, projectId, data),
                        !.nextAssetId = @ + 1]
    /\ calls' = [calls EXCEPT ![c] =
           [Begin("db.createProjectAsset", 0, projectId) EXCEPT
               !.status = "inserted", !.input = data, !.insertId = db.nextAssetId]]
    /\ UNCHANGED <<resp, pureVars, engineVars, clientVars>>

\* db.createProjectAsset selects the row of its insertId and returns it
createProjectAssetReturns(c) ==
    /\ calls[c].proc = "db.createProjectAsset" /\ calls[c].status = "inserted"
    /\ LET created == createdProjectAsset(calls[c].insertId)
       IN  resp' = Responded("db.createProjectAsset", 0, calls[c].projectId,
                             RowOrUndefined(created), created)
    /\ calls' = [calls EXCEPT ![c].status = "done"]
    /\ UNCHANGED <<db, pureVars, engineVars, clientVars>>

(***************************************************************************)
(* generateHTMLFromDesign                                                  *)
(***************************************************************************)
\* the fixed text of the template literals, one piece each
GenHead == "<!DOCTYPE html>\n<html lang=\"en\">\n<head>\n  <meta charset=\"UTF-8\">\n  <meta name=\"viewport\" content=\"width=device-width, initial-scale=1.0\">\n  <title>Generated Website</title>\n  <style>\n    * {\n      margin: 0;\n      padding: 0;\n      box-sizing: border-box;\n    }\n    \n    body {\n      font-family: "
GenAfterFontFamily == ";\n      font-size: "
GenAfterBodySize == ";\n      line-height: "
GenAfterLineHeight == ";\n      color: "
GenAfterForeground == ";\n      background-color: "
GenAfterBackground == ";\n    }\n    \n    h1, h2, h3, h4, h5, h6 {\n      font-size: "
GenAfterHeadingSize == ";\n      margin-bottom: 1rem;\n    }\n    \n    .container {\n      max-width: 1200px;\n      margin: 0 auto;\n      padding: 0 1rem;\n    }\n    \n    .section {\n      padding: 3rem 0;\n    }\n    \n    .button {\n      display: inline-block;\n      padding: 0.75rem 1.5rem;\n      background-color: "
GenAfterPrimary == ";\n      color: white;\n      border: none;\n      border-radius: 0.5rem;\n      cursor: pointer;\n      font-size: 1rem;\n      text-decoration: none;\n    }\n    \n    .button:hover {\n      opacity: 0.9;\n    }\n  </style>\n</head>\n<body>\n"
GenSectionOpen == "  <section class=\"section\" id=\""
GenSectionAfterId == "\">\n    <div class=\"container\">\n      <h2>"
GenSectionAfterTitle == "</h2>\n      <p>"
GenSectionClose == "</p>\n    </div>\n  </section>\n"
GenTail == "</body>\n</html>"

\* object[key] || fallback, for a mapping given by its entries
PropertyOr(entries, key, fallback) ==
    IF \E k \in 1..Len(entries) : entries[k][1] = key /\ entries[k][2] # <<>>
    THEN entries[CHOOSE k \in 1..Len(entries) : entries[k][1] = key][2]
    ELSE fallback

\* section.field || fallback
FieldOr(section, field, fallback) ==
    IF field \in DOMAIN section /\ section[field] # <<>> THEN section[field] ELSE fallback

\* the text one section adds to html
GenSection(section) ==
    <<GenSectionOpen>> \o FieldOr(section, "id", <<"s", "e", "c", "t", "i", "o", "n">>)
        \o <<GenSectionAfterId>> \o FieldOr(section, "title", <<>>)
        \o <<GenSectionAfterTitle>> \o FieldOr(section, "content", <<>>)
        \o <<GenSectionClose>>

RECURSIVE GenSections(_)
GenSections(sections) ==
    IF sections = <<>> THEN <<>>
    ELSE GenSection(Head(sections)) \o GenSections(Tail(sections))

generateHTMLFromDesign(designData, designTokens) ==
    LET colors == TokenGroup(designTokens, "colors")
        typography == TokenGroup(designTokens, "typography")
        fontFamily == <<"f","o","n","t","F","a","m","i","l","y">>
        bodySize == <<"b","o","d","y","S","i","z","e">>
        lineHeight == <<"l","i","n","e","H","e","i","g","h","t">>
        foreground == <<"f","o","r","e","g","r","o","u","n","d">>
        background == <<"b","a","c","k","g","r","o","u","n","d">>
        headingSize == <<"h","e","a","d","i","n","g","S","i","z","e">>
        primary == <<"p","r","i","m","a","r","y">>
    IN  <<GenHead>> \o PropertyOr(typography, fontFamily, <<"Inter, sans-serif">>)
            \o <<GenAfterFontFamily>> \o PropertyOr(typography, bodySize, <<"1rem">>)
            \o <<GenAfterBodySize>> \o PropertyOr(typography, lineHeight, <<"1.5">>)
            \o <<GenAfterLineHeight>> \o PropertyOr(colors, foreground, <<"#1F2937">>)
            \o <<GenAfterForeground>> \o PropertyOr(colors, background, <<"#FFFFFF">>)
            \o <<GenAfterBackground>> \o PropertyOr(typography, headingSize, <<"2rem">>)
            \o <<GenAfterHeadingSize>> \o PropertyOr(colors, primary, <<"#3B82F6">>)
            \o <<GenAfterPrimary>>
            \o (IF designData.isArray THEN GenSections(designData.items) ELSE <<>>)
            \o <<GenTail>>

(***************************************************************************)
(* The export procedures of the router                                     *)
(***************************************************************************)
\* `exports/${input.projectId}/<format>-${nanoid()}.<ext>`
RouterFileKey(projectId, format, id) ==
    ExportsDir(NumberToString(projectId))
        \o (CASE format = "framer"  -> <<"f", "r", "a", "m", "e", "r", "-">> \o id \o DotJson
              [] format = "figma"   -> <<"f", "i", "g", "m", "a", "-">> \o id \o DotJson
              [] format = "webflow" -> <<"w", "e", "b", "f", "l", "o", "w", "-">> \o id \o DotJson
              [] format = "html"    -> <<"h", "t", "m", "l", "-">> \o id \o DotHtml)

\* the object framerData / figmaData / webflowData
RouterExportData(format, project, design) ==
    IF format = "webflow"
    THEN [version |-> "1.0", type |-> format, project |-> project.name,
          design |-> design.designData, tokens |-> design.designTokens,
          cms |-> [collections |-> <<>>, fields |-> <<>>]]
    ELSE [version |-> "1.0", type |-> format, project |-> project.name,
          design |-> design.designData, tokens |-> design.designTokens]

\* the message of the catch block of each export procedure
FailedToExport(format) ==
    CASE format = "framer"  -> "Failed to export to Framer"
      [] format = "figma"   -> "Failed to export to Figma"
      [] format = "webflow" -> "Failed to export to Webflow"
      [] format = "html"    -> "Failed to export to HTML"

\* the message of the catch block of the procedure of a call
CatchMessage(call) ==
    CASE call.proc = "ai.generateWebsite" -> "Failed to generate website design"
      [] call.proc = "ai.generateImage" -> "Failed to generate image"
      [] OTHER -> FailedToExport(call.format)

\* the name of an export procedure
ExportProc(format) ==
    CASE format = "framer"  -> "exports.exportToFramer"
      [] format = "figma"   -> "exports.exportToFigma"
      [] format = "webflow" -> "exports.exportToWebflow"
      [] format = "html"    -> "exports.exportToHTML"

\* an export procedure up to its first lookup, db.getProjectById
RouterExport(c, format, user, projectId, designId) ==
    /\ MayCall(c)
    /\ LET project == getProjectById(projectId, user)
           call == [Begin(ExportProc(format), user, projectId) EXCEPT
                       !.format = format, !.designId = designId]
       IN  calls' = [calls EXCEPT ![c] =
               IF project = {} THEN Fail(call, TRPCError("NOT_FOUND", ""))
               ELSE [call EXCEPT !.status = "found", !.project = project]]
    /\ UNCHANGED <<inv, storage, puts, nanoCount, clock, db, resp, pureVars, clientVars>>

exports_exportToFramer(c, user, projectId, designId) ==
    RouterExport(c, "framer", user, projectId, designId)

exports_exportToFigma(c, user, projectId, designId) ==
    RouterExport(c, "figma", user, projectId, designId)

exports_exportToWebflow(c, user, projectId, designId) ==
    RouterExport(c, "webflow", user, projectId, designId)

exports_exportToHTML(c, user, projectId, designId) ==
    RouterExport(c, "html", user, projectId, designId)

\* the second lookup, db.getDesignById, and what follows it up to
\* `await storagePut(...)`: inside try the payload, built from the project
\* and the design the two lookups gave, and the key
RouterExportDesign(c) ==
    /\ calls[c].format # "none" /\ calls[c].status = "found"
    /\ LET design == getDesignById(calls[c].designId)
       IN  IF design = {}
           THEN /\ calls' = [calls EXCEPT ![c] = Fail(@, TRPCError("NOT_FOUND", ""))]
                /\ UNCHANGED <<puts, nanoCount>>
           ELSE LET p == CHOOSE row \in calls[c].project : TRUE
                    d == CHOOSE row \in design : TRUE
                    format == calls[c].format
                    fileKey == RouterFileKey(calls[c].projectId, format, nanoid(nanoCount + 1))
                    data == IF format = "html"
                            THEN generateHTMLFromDesign(d.designData, d.designTokens)
                            ELSE RouterExportData(format, p, d)
                IN  /\ calls' = [calls EXCEPT ![c] =
                           [@ EXCEPT !.status = "awaiting", !.design = design,
                                     !.fileKey = fileKey]]
                    /\ puts' = Append(puts,
                           [by |-> <<"router", c>>, key |-> fileKey, data |-> data,
                            contentType |-> IF format = "html" THEN "text/html"
                                            ELSE "application/json"])
                    /\ nanoCount' = nanoCount + 1
    /\ UNCHANGED <<inv, storage, clock, db, resp, pureVars, clientVars>>

\* the calls of storagePut made by call c, and the one in flight
PutsOfCall(c) == {k \in 1..Len(puts) : puts[k].by = <<"router", c>>}
RouterPut(c) == puts[CHOOSE k \in PutsOfCall(c) : TRUE]

\* storagePut has written the object and resolves; the procedure goes on to
\* the create function of db.ts, which awaits before its insert
RouterStoragePutResolves(c) ==
    /\ calls[c].status = "awaiting"
    /\ LET put == RouterPut(c)
       IN  storage' = StorageWrite(storage, put.key, put.data, put.contentType)
    /\ calls' = [calls EXCEPT ![c].status = "stored"]
    /\ UNCHANGED <<inv, puts, nanoCount, clock, db, resp, pureVars, clientVars>>

\* the export recorded before the write is awaited: a rejected storagePut
\* leaves its row behind
RouterStoragePutRejectsRecorded(c) ==
    /\ calls[c].status = "awaiting"
    /\ LET put == RouterPut(c)
           row == ExportRow(calls[c].projectId, calls[c].designId, calls[c].format,
                            StorageUrl(put.key), calls[c].fileKey,
                            IF calls[c].format = "html" THEN <<>> ELSE put.data, clock)
       IN  db' = [db EXCEPT !.exports = Append(@, row)]
    /\ calls' = [calls EXCEPT ![c] =
           Fail(@, TRPCError("INTERNAL_SERVER_ERROR", CatchMessage(calls[c])))]
    /\ UNCHANGED <<inv, storage, puts, nanoCount, clock, resp, pureVars, clientVars>>

\* storagePut rejects: the catch block turns the rejection into the
\* TRPCError of the procedure; resp keeps the answers of ai.generateImage,
\* not those of the export procedures
RouterStoragePutRejects(c) ==
    /\ calls[c].status = "awaiting"
    /\ calls' = [calls EXCEPT ![c] =
           Fail(@, TRPCError("INTERNAL_SERVER_ERROR", CatchMessage(calls[c])))]
    /\ resp' = IF calls[c].proc = "ai.generateImage"
               THEN Threw("ai.generateImage", calls[c].user, calls[c].projectId,
                          TRPCError("INTERNAL_SERVER_ERROR", CatchMessage(calls[c])))
               ELSE resp
    /\ UNCHANGED <<inv, storage, puts, nanoCount, clock, db, pureVars, clientVars>>

\* the insert of db.createExport
createExportInserts(c) ==
    /\ calls[c].format # "none" /\ calls[c].status = "stored"
    /\ LET put == RouterPut(c)
           row == ExportRow(calls[c].projectId, calls[c].designId, calls[c].format,
                            StorageUrl(put.key), calls[c].fileKey,
                            IF calls[c].format = "html" THEN <<>> ELSE put.data, clock)
       IN  /\ db' = [db EXCEPT !.exports = Append(@, row)]
           /\ calls' = [calls EXCEPT ![c].status = "inserted", ![c].insertId = row.id]
    /\ UNCHANGED <<inv, storage, puts, nanoCount, clock, resp, pureVars, clientVars>>

\* db.createExport throws after storagePut has resolved; the procedure
\* returns the promise of db.createExport without awaiting it inside try, so
\* the catch block does not see the rejection and the caller gets the error
\* as db.createExport threw it
RouterCreateExportThrows(c) ==
    /\ calls[c].format # "none" /\ calls[c].status = "stored"
    /\ calls' = [calls EXCEPT ![c] = Fail(@, DatabaseError)]
    /\ UNCHANGED <<inv, storage, puts, nanoCount, clock, db, resp, pureVars, clientVars>>

\* db.createExport selects the row of its insertId; the procedure returns it
createExportReturns(c) ==
    /\ calls[c].format # "none" /\ calls[c].status = "inserted"
    /\ calls' = [calls EXCEPT ![c].status = "done",
                              ![c].result = db.exports[calls[c].insertId]]
    /\ UNCHANGED <<inv, storage, puts, nanoCount, clock, db, resp, pureVars, clientVars>>

(***************************************************************************)
(* The designs procedures of the router that write                         *)
(***************************************************************************)
\* the inputs of designs.create and designs.update, without the ids
DesignInputs ==
    { [name |-> <<"D", "3">>,
       designData |-> JsonArray(<< [title |-> <<"N", "e", "w">>] >>),
       designTokens |-> ColorTokensOnly] }
DesignUpdates == { [designData |-> JsonArray(<< [content |-> <<"x", "<", "y">>] >>)] }

\* the designs table after the insert of db.createDesign
insertDesign(designs, id, projectId, data) ==
    [k \in DOMAIN designs \cup {id} |->
        IF k = id THEN [id |-> id, projectId |-> projectId, name |-> data.name,
                        designData |-> data.designData,
                        designTokens |-> data.designTokens]
        ELSE designs[k]]

\* the designs table after update(designs).set(data).where(id)
updateDesign(designs, designId, data) ==
    [k \in DOMAIN designs |->
        IF designs[k].id = designId THEN SpreadMerge(designs[k], data) ELSE designs[k]]

\* designs.create up to its lookup
designs_create(c, user, projectId, input) ==
    /\ MayCall(c)
    /\ ProjectLookup(c, "designs.create",
           [Begin("designs.create", user, projectId) EXCEPT !.input = input])
    /\ UNCHANGED <<db, pureVars, engineVars, clientVars>>

\* the insert of db.createDesign, for designs.create and ai.generateWebsite
createDesignInserts(c) ==
    /\ \/ calls[c].proc = "designs.create" /\ calls[c].status = "found"
       \/ calls[c].proc = "ai.generateWebsite" /\ calls[c].status = "generated"
    /\ db' = [db EXCEPT !.designs = insertDesign(@, db.nextDesignId, calls[c].projectId,
                                                 calls[c].input),
                        !.nextDesignId = @ + 1]
    /\ calls' = [calls EXCEPT ![c].status = "inserted", ![c].insertId = db.nextDesignId]
    /\ UNCHANGED <<resp, pureVars, engineVars, clientVars>>

\* db.createDesign throws: designs.create lets the error through, the catch
\* block of ai.generateWebsite, which awaits db.createDesign inside try, turns
\* it into its TRPCError
createDesignThrows(c) ==
    /\ \/ calls[c].proc = "designs.create" /\ calls[c].status = "found"
       \/ calls[c].proc = "ai.generateWebsite" /\ calls[c].status = "generated"
    /\ LET error == IF calls[c].proc = "designs.create" THEN DatabaseError
                    ELSE TRPCError("INTERNAL_SERVER_ERROR", CatchMessage(calls[c]))
       IN  /\ calls' = [calls EXCEPT ![c] = Fail(@, error)]
           /\ resp' = Threw(calls[c].proc, calls[c].user, calls[c].projectId,
                            [name |-> error.name,
                             code |-> IF "code" \in DOMAIN error THEN error.code ELSE "",
                             message |-> error.message])
    /\ UNCHANGED <<db, pureVars, engineVars, clientVars>>

\* db.createDesign selects the row of its insertId; the procedure returns it
createDesignReturns(c) ==
    /\ calls[c].proc \in {"designs.create", "ai.generateWebsite"}
    /\ calls[c].status = "inserted"
    /\ LET created == getDesignById(calls[c].insertId)
       IN  resp' = Responded(calls[c].proc, calls[c].user, calls[c].projectId,
                             RowOrUndefined(created), created)
    /\ calls' = [calls EXCEPT ![c].status = "done"]
    /\ UNCHANGED <<db, pureVars, engineVars, clientVars>>

\* designs.update up to its first lookup, db.getDesignById
designs_update(c, user, designId, data) ==
    /\ MayCall(c)
    /\ LET design == getDesignById(designId)
           call == [Begin("designs.update", user, 0) EXCEPT
                       !.designId = designId, !.input = data]
       IN  IF design = {}
           THEN /\ calls' = [calls EXCEPT ![c] = Fail(call, TRPCError("NOT_FOUND", ""))]
                /\ resp' = Threw("designs.update", user, 0, TRPCError("NOT_FOUND", ""))
           ELSE /\ calls' = [calls EXCEPT ![c] =
                       [call EXCEPT !.status = "design", !.design = design,
                                    !.projectId = (CHOOSE row \in design : TRUE).projectId]]
                /\ resp' = resp
    /\ UNCHANGED <<db, pureVars, engineVars, clientVars>>

\* the second lookup of designs.update: db.getProjectById(design.projectId,
\* user), FORBIDDEN thrown when there is no such row
designsUpdateGetsProject(c) ==
    /\ calls[c].proc = "designs.update" /\ calls[c].status = "design"
    /\ LET project == getProjectById(calls[c].projectId, calls[c].user)
       IN  IF project = {}
           THEN /\ calls' = [calls EXCEPT ![c] = Fail(@, TRPCError("FORBIDDEN", ""))]
                /\ resp' = Threw("designs.update", calls[c].user, calls[c].projectId,
                                 TRPCError("FORBIDDEN", ""))
           ELSE /\ calls' = [calls EXCEPT ![c].status = "found", ![c].project = project]
                /\ resp' = resp
    /\ UNCHANGED <<db, pureVars, engineVars, clientVars>>

\* the UPDATE of db.updateDesign
updateDesignUpdates(c) ==
    /\ calls[c].proc = "designs.update" /\ calls[c].status = "found"
    /\ db' = [db EXCEPT !.designs = updateDesign(@, calls[c].designId, calls[c].input)]
    /\ calls' = [calls EXCEPT ![c].status = "updated"]
    /\ UNCHANGED <<resp, pureVars, engineVars, clientVars>>

\* db.updateDesign returns getDesignById(designId)
updateDesignReturns(c) ==
    /\ calls[c].proc = "designs.update" /\ calls[c].status = "updated"
    /\ LET row == getDesignById(calls[c].designId)
       IN  resp' = Responded("designs.update", calls[c].user, calls[c].projectId,
                             RowOrUndefined(row), row)
    /\ calls' = [calls EXCEPT ![c].status = "done"]
    /\ UNCHANGED <<db, pureVars, engineVars, clientVars>>

(***************************************************************************)
(* The ai procedures of the router                                         *)
(***************************************************************************)
\* what JSON.parse makes of the content invokeLLM resolves with: an object
\* without fields, a design
LLMResponses ==
    { <<>>,
      [sections |-> JsonArray(<< [title |-> <<"A", "I">>] >>),
       designTokens |-> ColorTokensOnly] }

\* the prompt given to ai.generateImage, of 10 characters or more
ImagePrompt == <<"a blue logo">>

\* the url generateImage resolves with
ImageUrls == { <<"https://images/1.png">> }

\* `Design - ${new Date().toLocaleDateString()}`
GeneratedDesignName(now) == <<"Design - ">> \o <<"date-" \o ToString(now)>>

\* `projects/${input.projectId}/generated-images/${nanoid()}.png`
RouterImageKey(projectId, id) ==
    <<"p", "r", "o", "j", "e", "c", "t", "s", "/">> \o NumberToString(projectId)
        \o <<"/generated-images/">> \o id \o <<".", "p", "n", "g">>

\* ai.generateWebsite up to its lookup; invokeLLM is called next
ai_generateWebsite(c, user, projectId) ==
    /\ MayCall(c)
    /\ ProjectLookup(c, "ai.generateWebsite", Begin("ai.generateWebsite", user, projectId))
    /\ UNCHANGED <<db, pureVars, engineVars, clientVars>>

\* invokeLLM resolves with content that parses: the procedure calls
\* db.createDesign with designData.sections || [] and
\* designData.designTokens || {}
invokeLLMResolves(c, parsed) ==
    /\ calls[c].proc = "ai.generateWebsite" /\ calls[c].status = "found"
    /\ calls' = [calls EXCEPT
           ![c].status = "generated",
           ![c].input =
               [name |-> GeneratedDesignName(clock),
                designData |-> IF "sections" \in DOMAIN parsed
                               THEN parsed.sections ELSE JsonArray(<<>>),
                designTokens |-> IF "designTokens" \in DOMAIN parsed
                                 THEN parsed.designTokens ELSE <<>>]]
    /\ UNCHANGED <<db, resp, pureVars, engineVars, clientVars>>

\* invokeLLM rejects, or resolves without content, or with content that
\* JSON.parse refuses: each is an error thrown inside try, and the catch
\* block throws the TRPCError of the procedure
invokeLLMRejects(c) ==
    /\ calls[c].proc = "ai.generateWebsite" /\ calls[c].status = "found"
    /\ calls' = [calls EXCEPT ![c] =
           Fail(@, TRPCError("INTERNAL_SERVER_ERROR", CatchMessage(calls[c])))]
    /\ resp' = Threw("ai.generateWebsite", calls[c].user, calls[c].projectId,
                     TRPCError("INTERNAL_SERVER_ERROR", CatchMessage(calls[c])))
    /\ UNCHANGED <<db, pureVars, engineVars, clientVars>>

\* ai.generateImage up to its lookup; generateImage is called next
ai_generateImage(c, user, projectId) ==
    /\ MayCall(c)
    /\ ProjectLookup(c, "ai.generateImage", Begin("ai.generateImage", user, projectId))
    /\ UNCHANGED <<db, pureVars, engineVars, clientVars>>

\* generateImage resolves with a url: the procedure makes the key with
\* nanoid() and fetches the image
generateImageResolves(c, url) ==
    /\ calls[c].proc = "ai.generateImage" /\ calls[c].status = "found"
    /\ url # <<>>
    /\ calls' = [calls EXCEPT
           ![c].status = "fetching",
           ![c].fileKey = RouterImageKey(calls[c].projectId, nanoid(nanoCount + 1))]
    /\ nanoCount' = nanoCount + 1
    /\ UNCHANGED <<inv, storage, puts, clock, db, resp, pureVars, clientVars>>

\* generateImage rejects or resolves without url, or the fetch of the image
\* or the reading of its body rejects: the catch block throws the TRPCError
\* of the procedure
generateImageRejects(c) ==
    /\ calls[c].proc = "ai.generateImage"
    /\ calls[c].status \in {"found", "fetching", "reading"}
    /\ calls' = [calls EXCEPT ![c] =
           Fail(@, TRPCError("INTERNAL_SERVER_ERROR", CatchMessage(calls[c])))]
    /\ resp' = Threw("ai.generateImage", calls[c].user, calls[c].projectId,
                     TRPCError("INTERNAL_SERVER_ERROR", CatchMessage(calls[c])))
    /\ UNCHANGED <<db, pureVars, engineVars, clientVars>>

\* the fetch of the image resolves; the procedure awaits the body of the
\* response
fetchResolves(c) ==
    /\ calls[c].proc = "ai.generateImage" /\ calls[c].status = "fetching"
    /\ calls' = [calls EXCEPT ![c].status = "reading"]
    /\ UNCHANGED <<db, resp, pureVars, engineVars, clientVars>>

\* response.arrayBuffer() resolves; storagePut is called with the bytes
arrayBufferResolves(c) ==
    /\ calls[c].proc = "ai.generateImage" /\ calls[c].status = "reading"
    /\ calls' = [calls EXCEPT ![c].status = "awaiting"]
    /\ puts' = Append(puts, [by |-> <<"router", c>>, key |-> calls[c].fileKey,
                             data |-> <<"image-bytes">>, contentType |-> "image/png"])
    /\ UNCHANGED <<inv, storage, nanoCount, clock, db, resp, pureVars, clientVars>>

\* the row db.createGeneratedImage inserts
GeneratedImageRow(projectId, imageUrl, imageKey) ==
    [id |-> Len(db.images) + 1, projectId |-> projectId, prompt |-> ImagePrompt,
     imageUrl |-> imageUrl, imageKey |-> imageKey,
     metadata |-> [width |-> 1920, height |-> 1080]]

\* the insert of db.createGeneratedImage
createGeneratedImageInserts(c) ==
    /\ calls[c].proc = "ai.generateImage" /\ calls[c].status = "stored"
    /\ LET row == GeneratedImageRow(calls[c].projectId, StorageUrl(calls[c].fileKey),
                                    calls[c].fileKey)
       IN  /\ db' = [db EXCEPT !.images = Append(@, row)]
           /\ calls' = [calls EXCEPT ![c].status = "inserted", ![c].insertId = row.id]
    /\ UNCHANGED <<resp, pureVars, engineVars, clientVars>>

\* db.createGeneratedImage throws: as in the export procedures its promise
\* is returned without await, so the error reaches the caller as thrown
createGeneratedImageThrows(c) ==
    /\ calls[c].proc = "ai.generateImage" /\ calls[c].status = "stored"
    /\ calls' = [calls EXCEPT ![c] = Fail(@, DatabaseError)]
    /\ resp' = Threw("ai.generateImage", calls[c].user, calls[c].projectId,
                     [name |-> "Error", code |-> "", message |-> DatabaseError.message])
    /\ UNCHANGED <<db, pureVars, engineVars, clientVars>>

\* db.createGeneratedImage selects the row of its insertId and returns it
createGeneratedImageReturns(c) ==
    /\ calls[c].proc = "ai.generateImage" /\ calls[c].status = "inserted"
    /\ resp' = Responded("ai.generateImage", calls[c].user, calls[c].projectId, "row",
                         {db.images[calls[c].insertId]})
    /\ calls' = [calls EXCEPT ![c].status = "done"]
    /\ UNCHANGED <<db, pureVars, engineVars, clientVars>>

(***************************************************************************)
(* ExportPanel (client/src/components/ExportPanel.tsx)                     *)
(***************************************************************************)
\* the four cases of the switch of handleExport
PanelFormats == {"framer", "figma", "webflow", "html"}

\* the messages of toast.success and toast.error of the four mutations
PanelToast(kind, format) ==
    IF kind = "success"
    THEN CASE format = "framer"  -> "Framer export ready!"
           [] format = "figma"   -> "Figma export ready!"
           [] format = "webflow" -> "Webflow export ready!"
           [] format = "html"    -> "HTML export ready!"
    ELSE CASE format = "framer"  -> "Failed to export to Framer"
           [] format = "figma"   -> "Failed to export to Figma"
           [] format = "webflow" -> "Failed to export to Webflow"
           [] format = "html"    -> "Failed to export to HTML"

\* the panel after mounting: useState(null), written "null"; no mutation in
\* flight.  requests are the calls of handleExport so far; a pending
\* mutation and a toast name the request they belong to.
IdlePanel ==
    [isExporting |-> "null", requests |-> <<>>, pending |-> <<>>,
     toasts |-> <<>>, downloads |-> 0]

\* handleExport reached through controls that are never disabled
handleExportAlways(format) ==
    /\ Len(panel.requests) < MaxClicks
    /\ panel' = [panel EXCEPT
           !.isExporting = format,
           !.requests = Append(@, format),
           !.pending = IF format \in PanelFormats
                       THEN Append(@, [format |-> format,
                                       request |-> Len(panel.requests) + 1])
                       ELSE @]
    /\ UNCHANGED <<pureVars, engineVars, routerVars, editor>>

\* handleExport(format), reached through a control that is disabled while
\* isExporting !== null: setIsExporting(format), then the switch, which
\* starts the mutation of the format and has no default case
handleExport(format) ==
    /\ panel.isExporting = "null"
    /\ Len(panel.requests) < MaxClicks
    /\ panel' = [panel EXCEPT
           !.isExporting = format,
           !.requests = Append(@, format),
           !.pending = IF format \in PanelFormats
                       THEN Append(@, [format |-> format,
                                       request |-> Len(panel.requests) + 1])
                       ELSE @]
    /\ UNCHANGED <<pureVars, engineVars, routerVars, editor>>

\* the sequence without its k-th element
RemoveAt(seq, k) == SubSeq(seq, 1, k - 1) \o SubSeq(seq, k + 1, Len(seq))

\* onSuccess of the k-th pending mutation: toast.success, downloadFile,
\* setIsExporting(null)
mutationSucceeds(k) ==
    /\ k \in 1..Len(panel.pending)
    /\ panel' = [panel EXCEPT
           !.isExporting = "null",
           !.pending = RemoveAt(@, k),
           !.toasts = Append(@, [kind |-> "success",
                                 message |-> PanelToast("success", panel.pending[k].format),
                                 request |-> panel.pending[k].request]),
           !.downloads = @ + 1]
    /\ UNCHANGED <<pureVars, engineVars, routerVars, editor>>

\* onError of the k-th pending mutation: toast.error, setIsExporting(null)
mutationFails(k) ==
    /\ k \in 1..Len(panel.pending)
    /\ panel' = [panel EXCEPT
           !.isExporting = "null",
           !.pending = RemoveAt(@, k),
           !.toasts = Append(@, [kind |-> "error",
                                 message |-> PanelToast("error", panel.pending[k].format),
                                 request |-> panel.pending[k].request])]
    /\ UNCHANGED <<pureVars, engineVars, routerVars, editor>>

(***************************************************************************)
(* EnhancedEditor (client/src/pages/EnhancedEditor.tsx)                    *)
(***************************************************************************)
\* two of the entries of COMPONENT_TEMPLATES
COMPONENT_TEMPLATES ==
    [hero |-> [type |-> "hero", title |-> "Hero Section",
               content |-> "Welcome to your website",
               width |-> 100, height |-> 40, bgColor |-> "#3B82F6", textColor |-> "#FFFFFF"],
     features |-> [type |-> "features", title |-> "Features",
                   content |-> "Key features of your product",
                   width |-> 100, height |-> 30, bgColor |-> "#FFFFFF",
                   textColor |-> "#1F2937"]]

\* Date.now() at instant t of the clock: milliseconds, far above the
\* indexes of the sections of a generated design
DateNow(t) == 1000 + t

\* `component-${n}`
ComponentId(n) == "component-" \o ToString(n)

\* what ai.generateWebsite may return: an array of two sections (the second
\* without type and title), an empty array, and designData that is no
\* array and comes without tokens
GeneratedDesigns ==
    { [designData |-> JsonArray(<< [type |-> "cta", title |-> "Call", content |-> "Go"],
                                   [content |-> "More"] >>),
       designTokens |-> "generated"],
      [designData |-> JsonArray(<<>>), designTokens |-> "generated"],
      [designData |-> JsonObject, designTokens |-> "null"] }

\* where the mouse may be, in pixels of a canvas whose bounding rect is
\* left 0, top 0, width 100
MousePositions == {0, 100}

\* what the inputs of the properties panel may write
EditorUpdates == { [title |-> "Edited"] }

\* the page after mounting; null is written "null"
IdleEditor ==
    [components |-> <<>>, designTokens |-> "initial", selectedComponent |-> "null",
     prompt |-> <<>>, isDragging |-> FALSE, dragOffset |-> [x |-> 0, y |-> 0],
     generating |-> 0, toast |-> ""]

\* designState.components.find((c) => c.id === id): the positions found
FindComponent(id) ==
    {k \in 1..Len(editor.components) : editor.components[k].id = id}

\* prev.components.map((c) => (c.id === id ? { ...c, ...updates } : c))
ChangedComponents(id, updates) ==
    [k \in 1..Len(editor.components) |->
        IF editor.components[k].id = id
        THEN SpreadMerge(editor.components[k], updates)
        ELSE editor.components[k]]

\* prev.components.filter((c) => c.id !== id)
RECURSIVE FilterOut(_, _)
FilterOut(components, id) ==
    IF components = <<>> THEN <<>>
    ELSE IF Head(components).id = id THEN FilterOut(Tail(components), id)
         ELSE <<Head(components)>> \o FilterOut(Tail(components), id)

\* the texts typed into the prompt box: nothing, two spaces, a request
Prompts == { <<>>, <<" ", " ">>, <<"a", " ", "s", "h", "o", "p">> }

\* the messages of the errors the mutation fails with: none, that of
\* ai.generateWebsite, that of a TRPCError without message
ErrorMessages == {"", "Failed to generate website design", "NOT_FOUND"}

\* text.trim(): the white space at both ends taken off
RECURSIVE trimStart(_)
trimStart(text) ==
    IF text # <<>> /\ Head(text) \in WhiteSpace THEN trimStart(Tail(text)) ELSE text

RECURSIVE trimEnd(_)
trimEnd(text) ==
    IF text # <<>> /\ text[Len(text)] \in WhiteSpace
    THEN trimEnd(SubSeq(text, 1, Len(text) - 1))
    ELSE text

trim(text) == trimEnd(trimStart(text))

\* the prompt box
setPrompt(text) ==
    /\ editor.prompt # text
    /\ editor' = [editor EXCEPT !.prompt = text]
    /\ UNCHANGED <<pureVars, engineVars, routerVars, panel>>

\* a button of the component palette
handleAddComponent(type) ==
    /\ Len(editor.components) < MaxComponents
    /\ LET template == COMPONENT_TEMPLATES[type]
           newComponent ==
               [id |-> ComponentId(DateNow(clock)),
                type |-> template.type, title |-> template.title,
                content |-> template.content,
                x |-> 0, y |-> Len(editor.components) * 30,
                width |-> template.width, height |-> template.height,
                bgColor |-> template.bgColor, textColor |-> template.textColor]
       IN  editor' = [editor EXCEPT
               !.components = Append(@, newComponent),
               !.selectedComponent = newComponent.id,
               !.toast = type \o " component added"]
    /\ UNCHANGED <<pureVars, engineVars, routerVars, panel>>

\* the delete button of the properties panel, shown for selectedComp
handleDeleteComponent ==
    /\ FindComponent(editor.selectedComponent) # {}
    /\ editor' = [editor EXCEPT
           !.components = FilterOut(@, editor.selectedComponent),
           !.selectedComponent = "null",
           !.toast = "Component deleted"]
    /\ UNCHANGED <<pureVars, engineVars, routerVars, panel>>

\* an input of the properties panel, shown for selectedComp
handleComponentChange(updates) ==
    /\ FindComponent(editor.selectedComponent) # {}
    /\ editor' = [editor EXCEPT
           !.components = ChangedComponents(editor.selectedComponent, updates)]
    /\ UNCHANGED <<pureVars, engineVars, routerVars, panel>>

\* the left button goes down on the k-th component of the canvas
handleMouseDown(k, clientX, clientY) ==
    /\ k \in 1..Len(editor.components)
    /\ LET componentId == editor.components[k].id
           component == editor.components[CHOOSE m \in FindComponent(componentId) :
                                             \A n \in FindComponent(componentId) : m <= n]
       IN  editor' = [editor EXCEPT
               !.selectedComponent = componentId,
               !.isDragging = TRUE,
               !.dragOffset = [x |-> clientX - component.x, y |-> clientY - component.y]]
    /\ UNCHANGED <<pureVars, engineVars, routerVars, panel>>

\* Math.max(lo, Math.min(hi, v))
Clamp(lo, hi, v) == IF v < lo THEN lo ELSE IF v > hi THEN hi ELSE v

\* the mouse moves over the canvas
handleMouseMove(clientX, clientY) ==
    /\ editor.isDragging
    /\ editor.selectedComponent # "null"
    /\ clientY - editor.dragOffset.y <= MaxY
    /\ LET newX == Clamp(0, 100, clientX - editor.dragOffset.x)
           newY == IF clientY - editor.dragOffset.y < 0 THEN 0
                   ELSE clientY - editor.dragOffset.y
       IN  editor' = [editor EXCEPT
               !.components = ChangedComponents(editor.selectedComponent,
                                                [x |-> newX, y |-> newY])]
    /\ UNCHANGED <<pureVars, engineVars, routerVars, panel>>

\* the button comes up, or the mouse leaves the canvas
handleMouseUp ==
    /\ editor.isDragging
    /\ editor' = [editor EXCEPT !.isDragging = FALSE]
    /\ UNCHANGED <<pureVars, engineVars, routerVars, panel>>

\* the generate button: a prompt that is empty once trimmed is refused with
\* a toast
handleGenerateDesign ==
    /\ editor.generating < MaxGenerating
    /\ editor' = IF trim(editor.prompt) = <<>>
                 THEN [editor EXCEPT !.toast = "Please enter a design prompt"]
                 ELSE [editor EXCEPT !.generating = @ + 1]
    /\ UNCHANGED <<pureVars, engineVars, routerVars, panel>>

\* section.field || fallback, for a field that holds a string
SectionField(section, field, fallback) ==
    IF field \in DOMAIN section /\ section[field] # "" THEN section[field] ELSE fallback

\* the components onSuccess builds from the sections of design.designData
GeneratedComponents(designData) ==
    IF designData.isArray
    THEN [k \in 1..Len(designData.items) |->
             [id |-> ComponentId(k - 1),
              type |-> SectionField(designData.items[k], "type", "hero"),
              title |-> SectionField(designData.items[k], "title", "Section " \o ToString(k)),
              content |-> SectionField(designData.items[k], "content", ""),
              x |-> 0, y |-> (k - 1) * 30, width |-> 100, height |-> 25,
              bgColor |-> "#3B82F6", textColor |-> "#FFFFFF"]]
    ELSE <<>>

\* generateMutation.onSuccess
generateMutation_onSuccess(design) ==
    /\ editor.generating > 0
    /\ editor' = [editor EXCEPT
           !.generating = @ - 1,
           !.components = GeneratedComponents(design.designData),
           !.designTokens = IF design.designTokens = "null" THEN @
                            ELSE design.designTokens,
           !.prompt = <<>>,
           !.toast = "Design generated successfully!"]
    /\ UNCHANGED <<pureVars, engineVars, routerVars, panel>>

\* generateMutation.onError: error.message || "Failed to generate design"
generateMutation_onError(message) ==
    /\ editor.generating > 0
    /\ editor' = [editor EXCEPT !.generating = @ - 1,
                                !.toast = IF message # "" THEN message
                                          ELSE "Failed to generate design"]
    /\ UNCHANGED <<pureVars, engineVars, routerVars, panel>>

(***************************************************************************)
(* Runs of the two helpers on bounded inputs                               *)
(***************************************************************************)
HexAlphabet == {"#", "0", "F", "a", "g"}
EscAlphabet == {"&", "<", ">", "\"", "'", "a"}

NoRgb == [r |-> -1, g |-> -1, b |-> -1]

IdleRouter ==
    /\ calls = [c \in 1..MaxCalls |-> IdleCall]
    /\ db = InitialDb
    /\ resp = NoResponse

IdleClient == panel = IdlePanel /\ editor = IdleEditor

IdleHex == hex = [input |-> <<>>, done |-> FALSE, out |-> NoRgb]
IdleEsc == esc = [a |-> <<>>, b |-> <<>>, done |-> FALSE,
                  outA |-> <<>>, outB |-> <<>>, outAB |-> <<>>]

IdleEngine ==
    /\ inv = [i \in 1..MaxInv |-> IdleInvocation]
    /\ storage = <<>>
    /\ puts = <<>>
    /\ nanoCount = 0
    /\ clock = 0

InitHex ==
    /\ IdleEngine /\ IdleRouter /\ IdleClient
    /\ hex \in [input : SeqsUpTo(HexAlphabet, MaxHexLen), done : {FALSE}, out : {NoRgb}]
    /\ IdleEsc

InitEsc ==
    /\ IdleEngine /\ IdleRouter /\ IdleClient
    /\ esc \in [a : SeqsUpTo(EscAlphabet, MaxEscLen), b : SeqsUpTo(EscAlphabet, MaxEscLen),
                done : {FALSE}, outA : {<<>>}, outB : {<<>>}, outAB : {<<>>}]
    /\ IdleHex

CallHexToRgb ==
    /\ ~hex.done
    /\ hex' = [hex EXCEPT !.done = TRUE, !.out = hexToRgb(hex.input)]
    /\ UNCHANGED <<esc, engineVars, routerVars, clientVars>>

CallEscapeHtml ==
    /\ ~esc.done
    /\ esc' = [esc EXCEPT !.done = TRUE,
                          !.outA = escapeHtml(esc.a),
                          !.outB = escapeHtml(esc.b),
                          !.outAB = escapeHtml(esc.a \o esc.b)]
    /\ UNCHANGED <<hex, engineVars, routerVars, clientVars>>

Init == IdleEngine /\ IdleRouter /\ IdleClient /\ IdleHex /\ IdleEsc

Next ==
    \/ \E i \in 1..MaxInv, d \in Designs : exportToFramer(i, d)
    \/ \E i \in 1..MaxInv, d \in Designs : exportToFigma(i, d)
    \/ \E i \in 1..MaxInv : exportToWebflow(i, SiteDesign)
    \/ \E i \in 1..MaxInv, d \in Designs : exportToHTML(i, d)
    \/ \E i \in 1..MaxInv : storagePutResolves(i)
    \/ \E i \in 1..MaxInv : storagePutRejects(i)
    \/ Tick

Spec == Init /\ [][Next]_vars

\* the export functions given the designs that lack token groups or
\* components; exportToWebflow is given the one that lacks both
NextEmpty ==
    \/ \E i \in 1..MaxInv, d \in LackingDesigns : exportToFramer(i, d)
    \/ \E i \in 1..MaxInv, d \in LackingDesigns : exportToFigma(i, d)
    \/ \E i \in 1..MaxInv : exportToWebflow(i, EmptyDesign)
    \/ \E i \in 1..MaxInv, d \in LackingDesigns : exportToHTML(i, d)
    \/ \E i \in 1..MaxInv : storagePutResolves(i)
    \/ \E i \in 1..MaxInv : storagePutRejects(i)
    \/ Tick

SpecEmpty == Init /\ [][NextEmpty]_vars

NextHtml ==
    \/ \E i \in 1..MaxInv, d \in MarkupDesigns : exportToHTML(i, d)
    \/ \E i \in 1..MaxInv : storagePutResolves(i)
    \/ \E i \in 1..MaxInv : storagePutRejects(i)

SpecHtml == Init /\ [][NextHtml]_vars

NextPanel ==
    \/ \E format \in PanelFormats : handleExport(format)
    \/ \E k \in 1..MaxClicks : mutationSucceeds(k)
    \/ \E k \in 1..MaxClicks : mutationFails(k)

SpecPanel == Init /\ [][NextPanel]_vars

NextProjects ==
    \/ \E c \in 1..MaxCalls, u \in Users : projects_list(c, u)
    \/ \E c \in 1..MaxCalls, u \in Users, input \in ProjectInputs :
           projects_create(c, u, input)
    \/ \E c \in 1..MaxCalls : createProjectReturns(c)
    \/ \E c \in 1..MaxCalls, u \in Users, pid \in 1..MaxProjects : projects_get(c, u, pid)
    \/ \E c \in 1..MaxCalls, u \in Users, pid \in 1..MaxProjects, data \in ProjectUpdates :
           projects_update(c, u, pid, data)
    \/ \E c \in 1..MaxCalls : updateProjectUpdates(c)
    \/ \E c \in 1..MaxCalls : updateProjectReturns(c)
    \/ \E c \in 1..MaxCalls, u \in Users, pid \in 1..MaxProjects : projects_delete(c, u, pid)
    \/ \E c \in 1..MaxCalls : deleteProjectDeletes(c)

SpecProjects == Init /\ [][NextProjects]_vars

NextEditor ==
    \/ \E text \in Prompts : setPrompt(text)
    \/ \E type \in DOMAIN COMPONENT_TEMPLATES : handleAddComponent(type)
    \/ handleDeleteComponent
    \/ \E updates \in EditorUpdates : handleComponentChange(updates)
    \/ \E k \in 1..(MaxComponents + 2), mx \in MousePositions, my \in MousePositions :
           handleMouseDown(k, mx, my)
    \/ \E mx \in MousePositions, my \in MousePositions : handleMouseMove(mx, my)
    \/ handleMouseUp
    \/ handleGenerateDesign
    \/ \E design \in GeneratedDesigns : generateMutation_onSuccess(design)
    \/ \E message \in ErrorMessages : generateMutation_onError(message)
    \/ Tick

SpecEditor == Init /\ [][NextEditor]_vars

NextAssets ==
    \/ \E c \in 1..MaxCalls, u \in Users, pid \in ProjectIds : assets_list(c, u, pid)
    \/ \E c \in 1..MaxCalls : getProjectAssetsReturns(c)
    \/ \E c \in 1..MaxCalls, u \in Users, aid \in AssetIds : assets_delete(c, u, aid)
    \/ \E c \in 1..MaxCalls, pid \in ProjectIds, data \in AssetInputs :
           createProjectAsset(c, pid, data)
    \/ \E c \in 1..MaxCalls : createProjectAssetReturns(c)
    \/ \E c \in 1..MaxCalls, u \in Users, pid \in ProjectIds : projects_delete(c, u, pid)
    \/ \E c \in 1..MaxCalls : deleteProjectDeletes(c)

SpecAssets == Init /\ [][NextAssets]_vars

\* the calls made of the export procedures, as <<user, projectId, designId>>:
\* an owner with a design of the project, with a design of the other
\* project, with a design that may not exist; a user who is not the owner
ExportCalls(format) ==
    CASE format = "framer"  -> { <<1, 1, 1>>, <<1, 1, 2>>, <<2, 1, 1>> }
      [] format = "figma"   -> { <<2, 2, 2>> }
      [] format = "webflow" -> { <<1, 1, 3>> }
      [] format = "html"    -> { <<1, 1, 1>> }

\* the project the other procedures are called on, by its owner and by the
\* other user
RouterProjects == {1}

NextRouter ==
    \/ \E c \in 1..MaxCalls, in \in ExportCalls("framer") :
           exports_exportToFramer(c, in[1], in[2], in[3])
    \/ \E c \in 1..MaxCalls, in \in ExportCalls("figma") :
           exports_exportToFigma(c, in[1], in[2], in[3])
    \/ \E c \in 1..MaxCalls, in \in ExportCalls("webflow") :
           exports_exportToWebflow(c, in[1], in[2], in[3])
    \/ \E c \in 1..MaxCalls, in \in ExportCalls("html") :
           exports_exportToHTML(c, in[1], in[2], in[3])
    \/ \E c \in 1..MaxCalls : RouterExportDesign(c)
    \/ \E c \in 1..MaxCalls : RouterStoragePutResolves(c)
    \/ \E c \in 1..MaxCalls : RouterStoragePutRejects(c)
    \/ \E c \in 1..MaxCalls : createExportInserts(c)
    \/ \E c \in 1..MaxCalls : RouterCreateExportThrows(c)
    \/ \E c \in 1..MaxCalls : createExportReturns(c)
    \/ \E c \in 1..MaxCalls, u \in Users, pid \in RouterProjects, data \in ProjectUpdates :
           projects_update(c, u, pid, data)
    \/ \E c \in 1..MaxCalls : updateProjectUpdates(c)
    \/ \E c \in 1..MaxCalls : updateProjectReturns(c)
    \/ \E c \in 1..MaxCalls, u \in Users, pid \in RouterProjects : projects_delete(c, u, pid)
    \/ \E c \in 1..MaxCalls : deleteProjectDeletes(c)
    \/ \E c \in 1..MaxCalls, u \in Users, pid \in RouterProjects, input \in DesignInputs :
           designs_create(c, u, pid, input)
    \/ \E c \in 1..MaxCalls : createDesignInserts(c)
    \/ \E c \in 1..MaxCalls : createDesignThrows(c)
    \/ \E c \in 1..MaxCalls : createDesignReturns(c)
    \/ \E c \in 1..MaxCalls, u \in Users, did \in DesignIds, data \in DesignUpdates :
           designs_update(c, u, did, data)
    \/ \E c \in 1..MaxCalls : designsUpdateGetsProject(c)
    \/ \E c \in 1..MaxCalls : updateDesignUpdates(c)
    \/ \E c \in 1..MaxCalls : updateDesignReturns(c)
    \/ \E c \in 1..MaxCalls, u \in Users, pid \in RouterProjects : ai_generateWebsite(c, u, pid)
    \/ \E c \in 1..MaxCalls, parsed \in LLMResponses : invokeLLMResolves(c, parsed)
    \/ \E c \in 1..MaxCalls : invokeLLMRejects(c)
    \/ \E c \in 1..MaxCalls, u \in Users, pid \in RouterProjects : ai_generateImage(c, u, pid)
    \/ \E c \in 1..MaxCalls, url \in ImageUrls : generateImageResolves(c, url)
    \/ \E c \in 1..MaxCalls : generateImageRejects(c)
    \/ \E c \in 1..MaxCalls : fetchResolves(c)
    \/ \E c \in 1..MaxCalls : arrayBufferResolves(c)
    \/ \E c \in 1..MaxCalls : createGeneratedImageInserts(c)
    \/ \E c \in 1..MaxCalls : createGeneratedImageThrows(c)
    \/ \E c \in 1..MaxCalls : createGeneratedImageReturns(c)

SpecRouter == Init /\ [][NextRouter]_vars

NextHex == CallHexToRgb
NextEsc == CallEscapeHtml

SpecHex == InitHex /\ [][NextHex]_vars
SpecEsc == InitEsc /\ [][NextEsc]_vars

(***************************************************************************)
(* Properties of hexToRgb                                                  *)
(***************************************************************************)
StripHash(text) == IF Len(text) > 0 /\ text[1] = "#" THEN Tail(text) ELSE text

SixHexDigits(text) ==
    /\ Len(StripHash(text)) = 6
    /\ \A i \in 1..6 : StripHash(text)[i] \in DOMAIN HexDigitValue

PairValue(text, k) ==
    16 * HexDigitValue[StripHash(text)[2 * k - 1]] + HexDigitValue[StripHash(text)[2 * k]]

\* C6: hexToRgb always returns three integer channels in 0..255; six
\* hexadecimal digits of either case, with or without a leading '#', decode
\* to the values of their three digit pairs; every other input decodes to
\* {r:0, g:0, b:0}.
C6_ColorDecodeTotal ==
    hex.done =>
        /\ hex.out.r \in 0..255 /\ hex.out.g \in 0..255 /\ hex.out.b \in 0..255
        /\ SixHexDigits(hex.input) =>
               hex.out = [r |-> PairValue(hex.input, 1),
                          g |-> PairValue(hex.input, 2),
                          b |-> PairValue(hex.input, 3)]
        /\ ~SixHexDigits(hex.input) => hex.out = [r |-> 0, g |-> 0, b |-> 0]

\* a mixed-case colour with '#' has been decoded to non-zero channels
C6_Witness ==
    /\ hex.done
    /\ hex.input = <<"#", "F", "a", "0", "0", "a", "F">>
    /\ hex.out = [r |-> 250, g |-> 0, b |-> 175]

(***************************************************************************)
(* Properties of escapeHtml                                                *)
(***************************************************************************)
Entities == {escapeMap[c] : c \in DOMAIN escapeMap}

\* the entity e stands in text at position i
EntityAt(text, i, e) ==
    /\ i + Len(e) - 1 <= Len(text)
    /\ SubSeq(text, i, i + Len(e) - 1) = e

EscapedSafely(text) ==
    /\ \A i \in 1..Len(text) : text[i] \notin {"<", ">", "\"", "'"}
    /\ \A i \in 1..Len(text) :
           text[i] = "&" => \E e \in Entities : EntityAt(text, i, e)

HasNoSpecial(text) == \A i \in 1..Len(text) : text[i] \notin DOMAIN escapeMap

\* C7: the result of escapeHtml holds no literal '<', '>', '"' or single
\* quote, every '&' of the result begins one of the escaper's entities, and
\* a string without any of the five special characters is returned unchanged.
C7_EscapingSafety ==
    esc.done =>
        /\ EscapedSafely(esc.outA) /\ EscapedSafely(esc.outB) /\ EscapedSafely(esc.outAB)
        /\ HasNoSpecial(esc.a) => esc.outA = esc.a
        /\ HasNoSpecial(esc.a \o esc.b) => esc.outAB = esc.a \o esc.b

\* a string with two special characters and a string with none were escaped
C7_Witness ==
    /\ esc.done
    /\ esc.a = <<"<", "a", ">">> /\ esc.outA = <<"&", "l", "t", ";", "a", "&", "g", "t", ";">>
    /\ esc.b = <<"a", "a">> /\ esc.outB = esc.b

\* C8: escapeHtml is one character-wise pass: each special character becomes
\* its entity, every other character stays, escapeHtml(a + b) =
\* escapeHtml(a) + escapeHtml(b), and the ampersand of an entity is not
\* escaped again.
C8_SinglePass ==
    esc.done =>
        /\ esc.outAB = esc.outA \o esc.outB
        /\ Len(esc.a) = 1 =>
               esc.outA = CASE esc.a[1] = "&"  -> <<"&", "a", "m", "p", ";">>
                            [] esc.a[1] = "<"  -> <<"&", "l", "t", ";">>
                            [] esc.a[1] = ">"  -> <<"&", "g", "t", ";">>
                            [] esc.a[1] = "\"" -> <<"&", "q", "u", "o", "t", ";">>
                            [] esc.a[1] = "'"  -> <<"&", "#", "0", "3", "9", ";">>
                            [] OTHER -> esc.a

\* '<' and '&' were escaped next to each other, the '<' to '&lt;'
C8_Witness ==
    /\ esc.done
    /\ esc.a = <<"<">> /\ esc.b = <<"&", "<">>
    /\ esc.outAB = <<"&", "l", "t", ";", "&", "a", "m", "p", ";", "&", "l", "t", ";">>

(***************************************************************************)
(* Properties of the export functions                                      *)
(***************************************************************************)
Started(i) == inv[i].status # "idle"

\* the payload invocation i handed to storagePut
PayloadOf(i) == puts[CHOOSE k \in PutsBy(i) : TRUE].data

\* the payload with every embedded timestamp blanked
WithoutTimestamps(format, p) ==
    CASE format = "framer" -> [p EXCEPT !.metadata.exportedAt = 0]
      [] format = "webflow" ->
            [p EXCEPT !.createdOn = 0, !.updatedOn = 0, !.publishedOn = 0,
                      !.lastPublishedOn = 0,
                      !.pages[1].createdOn = 0, !.pages[1].updatedOn = 0,
                      !.pages[1].publishedOn = 0]
      [] OTHER -> p

\* the payload with every id that nanoid generated blanked
WithoutGeneratedIds(format, p) ==
    CASE format = "figma" ->
            [p EXCEPT !.styles = [k \in DOMAIN p.styles |-> [p.styles[k] EXCEPT !.key = <<>>]]]
      [] format = "webflow" ->
            [p EXCEPT !._id = <<>>,
                      !.pages[1]._id = <<>>,
                      !.pages[1].rootElementId = <<>>,
                      !.pages[1].children =
                          [k \in DOMAIN p.pages[1].children |->
                              [p.pages[1].children[k] EXCEPT !.children[1]._id = <<>>]],
                      !.cmsLocales[1]._id = <<>>]
      [] OTHER -> p

SameCall(i, j) ==
    /\ Started(i) /\ Started(j)
    /\ inv[i].format = inv[j].format
    /\ inv[i].input = inv[j].input

\* C1: two exports of the same components, tokens, project name and format
\* give payloads equal in every field but the embedded timestamps (the id
\* of the storage key is not part of the payload).
C1_Original ==
    \A i, j \in 1..MaxInv :
        SameCall(i, j) =>
            WithoutTimestamps(inv[i].format, PayloadOf(i))
                = WithoutTimestamps(inv[j].format, PayloadOf(j))

\* C2: the keys passed to storagePut are pairwise distinct, also for calls
\* with identical inputs, and an object once stored is the payload of the
\* one invocation that wrote it.
C2_UniqueStorageKeys ==
    /\ \A k, m \in 1..Len(puts) : k # m => puts[k].key # puts[m].key
    /\ \A i \in 1..MaxInv :
           inv[i].status = "done" =>
               /\ inv[i].fileKey \in DOMAIN storage
               /\ storage[inv[i].fileKey].data = PayloadOf(i)

\* two framer exports of the same design were both stored
C2_Witness ==
    /\ SameCall(1, 2)
    /\ inv[1].format = "framer"
    /\ inv[1].status = "done" /\ inv[2].status = "done"
    /\ Cardinality(DOMAIN storage) = 2

\* the payload is complete: every top-level part of the document is there
CompletePayload(format, p) ==
    CASE format = "framer" ->
            DOMAIN p = {"version", "name", "metadata", "designTokens", "components", "frames"}
      [] format = "figma" -> DOMAIN p = {"document", "assets", "styles"}
      [] format = "webflow" ->
            DOMAIN p = {"_id", "createdOn", "updatedOn", "publishedOn", "name", "shortName",
                        "lastPublishedOn", "createdBy", "updatedBy", "pages",
                        "globalStyles", "cmsLocales"}
      [] format = "html" -> p[1] = HtmlDocHead /\ p[Len(p)] = HtmlDocTail

\* C3: an export invocation calls storagePut exactly once, with the complete
\* payload; a failed write is not repeated and the invocation has failed
\* without a result.
C3_OneStorageWrite ==
    \A i \in 1..MaxInv :
        /\ ~Started(i) => PutsBy(i) = {}
        /\ Started(i) =>
               /\ Cardinality(PutsBy(i)) = 1
               /\ \A k \in PutsBy(i) :
                      /\ puts[k].key = inv[i].fileKey
                      /\ CompletePayload(inv[i].format, puts[k].data)
        /\ inv[i].status = "failed" =>
               /\ DOMAIN inv[i].result = {}
               /\ inv[i].fileKey \notin DOMAIN storage

\* one invocation has failed at its write, another has completed
C3_Witness ==
    /\ inv[1].status = "failed"
    /\ inv[2].status = "done"
    /\ Len(puts) = 2

\* the payload a run on its own would build: no id handed out before, the
\* clock at its first instant
BuiltAlone(format, d) ==
    CASE format = "framer" -> FramerConfig(d.components, d.designTokens, d.projectName, 0)
      [] format = "figma" -> FigmaDocument(d.components, d.designTokens, d.projectName, 0)
      [] format = "webflow" -> WebflowSite(d.components, d.designTokens, d.projectName, 0,
                                        [k \in 1..7 |-> 0])
      [] format = "html" -> HtmlContent(d.components, d.designTokens, d.projectName)

Stable(format, p) == WithoutGeneratedIds(format, WithoutTimestamps(format, p))

IndependentState ==
    \A i \in 1..MaxInv :
        /\ Started(i) =>
               Stable(inv[i].format, PayloadOf(i))
                   = Stable(inv[i].format, BuiltAlone(inv[i].format, inv[i].input))
        /\ inv[i].status = "done" =>
               /\ inv[i].result.fileKey = inv[i].fileKey
               /\ inv[i].result.url = StorageUrl(inv[i].fileKey)
               /\ inv[i].result.format = inv[i].format
               /\ inv[i].fileKey \in DOMAIN storage
               /\ storage[inv[i].fileKey].data = PayloadOf(i)

IndependentStep ==
    \A i, j \in 1..MaxInv : i # j => inv'[i] = inv[i] \/ inv'[j] = inv[j]

\* C5: under every interleaving, the payload, key and result of an
\* invocation are those of a run on its own inputs alone (up to generated
\* ids and timestamps), and a step of one invocation leaves every other
\* invocation as it was.
C5_ParallelExportsIndependent == [](IndependentState) /\ [][IndependentStep]_vars

\* two invocations were suspended at their writes together and the second
\* one completed first
C5_Witness ==
    /\ inv[1].status = "awaiting"
    /\ inv[2].status = "done"
    /\ inv[1].format # inv[2].format
    /\ inv[1].input = inv[2].input

\* C10: the framer output has one descriptor per input component, the i-th
\* with the id, title (as name) and type of the i-th component, and the
\* children of its single frame are the component ids in input order.
C10_ComponentGraphOrdering ==
    \A i \in 1..MaxInv :
        (Started(i) /\ inv[i].format = "framer") =>
            LET p == PayloadOf(i)
                comps == inv[i].input.components
            IN  /\ Len(p.components) = Len(comps)
                /\ \A k \in 1..Len(comps) :
                       /\ p.components[k].id = comps[k].id
                       /\ p.components[k].name = comps[k].title
                       /\ p.components[k].type = comps[k].type
                /\ Len(p.frames) = 1
                /\ p.frames[1].children = [k \in 1..Len(comps) |-> comps[k].id]

\* a design of two different components was exported to framer
C10_Witness ==
    /\ inv[1].status = "done"
    /\ inv[1].format = "framer"
    /\ Len(inv[1].input.components) = 2
    /\ inv[1].input.components[1].id # inv[1].input.components[2].id
    /\ Len(storage[inv[1].fileKey].data.components) = 2

(***************************************************************************)
(* Properties of the export procedures and of the markup                   *)
(***************************************************************************)
\* the error is of the one "export failed" kind and names the format
IsExportFailed(e, format) ==
    /\ "code" \in DOMAIN e
    /\ e.code = "INTERNAL_SERVER_ERROR"
    /\ e.message = FailedToExport(format)

ExportResultFields == {"url", "fileKey", "format", "fileName"}

\* C4 as stated: a failure of the adapter or of the storage write reaches
\* the caller as an "export failed" error carrying the format, without any
\* result; a successful export returns url, fileKey, format and fileName.
C4_ExportFailedOrComplete ==
    /\ \A i \in 1..MaxInv :
           /\ inv[i].status = "failed" =>
                  IsExportFailed(inv[i].error, inv[i].format) /\ DOMAIN inv[i].result = {}
           /\ inv[i].status = "done" => DOMAIN inv[i].result = ExportResultFields
    /\ \A c \in 1..MaxCalls :
           calls[c].format # "none" =>
               /\ (calls[c].status = "failed" /\ PutsOfCall(c) # {}
                       /\ calls[c].fileKey \notin DOMAIN storage) =>
                      IsExportFailed(calls[c].error, calls[c].format)
                          /\ DOMAIN calls[c].result = {}
               /\ calls[c].status = "done" =>
                      DOMAIN calls[c].result = ExportResultFields

\* the positions of a template piece in a text
PositionsOf(text, piece) == {k \in 1..Len(text) : text[k] = piece}

\* the n-th smallest element of a set of positions
NthOf(S, n) == CHOOSE k \in S : Cardinality({m \in S : m < k}) = n - 1

\* the text between the n-th occurrence of the piece open and the next
\* occurrence of the piece close
TextBetween(text, n, open, close) ==
    LET from == NthOf(PositionsOf(text, open), n)
        to == CHOOSE k \in PositionsOf(text, close) :
                  k > from /\ \A m \in PositionsOf(text, close) : m > from => k <= m
    IN  SubSeq(text, from + 1, to - 1)

\* C9 as stated: in every HTML export the heading and the paragraph of each
\* section are the escaped title and the escaped content.
C9_MarkupTextEscaped ==
    /\ \A i \in 1..MaxInv :
           (Started(i) /\ inv[i].format = "html") =>
               LET comps == inv[i].input.components
                   html == PayloadOf(i)
               IN  /\ Cardinality(PositionsOf(html, SectionAfterTag)) = Len(comps)
                   /\ \A n \in 1..Len(comps) :
                          /\ TextBetween(html, n, SectionAfterTag, SectionAfterTitle)
                                 = escapeHtml(comps[n].title)
                          /\ TextBetween(html, n, SectionAfterTitle, SectionClose)
                                 = escapeHtml(comps[n].content)
    /\ \A c \in 1..MaxCalls :
           (PutsOfCall(c) # {} /\ calls[c].format = "html") =>
               LET design == (CHOOSE row \in calls[c].design : TRUE).designData
                   html == RouterPut(c).data
               IN  \A n \in 1..Len(design.items) :
                       /\ TextBetween(html, n, GenSectionAfterId, GenSectionAfterTitle)
                              = escapeHtml(FieldOr(design.items[n], "title", <<>>))
                       /\ TextBetween(html, n, GenSectionAfterTitle, GenSectionClose)
                              = escapeHtml(FieldOr(design.items[n], "content", <<>>))

(***************************************************************************)
(* Properties of the payloads of the four export functions                 *)
(***************************************************************************)
\* the explicit fields of a component as the framer props name them
ExplicitFields(comp) ==
    [title |-> comp.title, content |-> comp.content,
     backgroundColor |-> comp.bgColor, textColor |-> comp.textColor,
     width |-> comp.width, height |-> comp.height, x |-> comp.x, y |-> comp.y]

\* C11: the props of a framer descriptor are the explicit fields (title,
\* content, backgroundColor, textColor, width, height, x, y) overlaid by the
\* properties of the component: every key of properties has the value
\* properties gives it, every explicit key not in properties has the value
\* of the component's field, and there are no other keys.
C11_PropsOverlay ==
    \A i \in 1..MaxInv :
        (Started(i) /\ inv[i].format = "framer") =>
            LET comps == inv[i].input.components
                out == PayloadOf(i).components
            IN  \A k \in 1..Len(comps) :
                    LET props == out[k].props
                        own == comps[k].properties
                        fields == ExplicitFields(comps[k])
                    IN  /\ DOMAIN props = DOMAIN fields \cup DOMAIN own
                        /\ \A key \in DOMAIN own : props[key] = own[key]
                        /\ \A key \in DOMAIN fields \ DOMAIN own : props[key] = fields[key]

\* a component whose properties override width and add a key of their own
\* was exported to framer
C11_Witness ==
    /\ Started(1) /\ inv[1].format = "framer"
    /\ inv[1].input.components = <<TextComponent, HeroComponent>>
    /\ PayloadOf(1).components[1].props.width = 75
    /\ TextComponent.width = 50
    /\ PayloadOf(1).components[1].props.variant = <<"w", "i", "d", "e">>
    /\ PayloadOf(1).components[1].props.height = 30

\* the groups a design-token object may hold
TokenGroups == {"colors", "typography", "spacing"}

\* the custom-property lines of the :root block of an HTML document
RootBlock(html) == TextBetween(html, 1, HtmlDocAfterTitle, HtmlDocAfterVariables)

\* C12 as stated: every payload holds its token sections, an absent group
\* as the empty mapping (framer designTokens and webflow globalStyles with
\* the three groups, figma styles, the :root block of the HTML), and the
\* only failure of an export is a failure of its storage write.
C12_Original ==
    \A i \in 1..MaxInv :
        Started(i) =>
            LET tokens == inv[i].input.designTokens
                p == PayloadOf(i)
                f == inv[i].format
            IN  /\ f = "framer" =>
                       /\ "designTokens" \in DOMAIN p
                       /\ DOMAIN p.designTokens = TokenGroups
                       /\ \A g \in TokenGroups :
                              p.designTokens[g] = IF g \in DOMAIN tokens THEN tokens[g] ELSE <<>>
                /\ f = "figma" =>
                       /\ "styles" \in DOMAIN p
                       /\ "colors" \notin DOMAIN tokens => p.styles = <<>>
                /\ f = "webflow" =>
                       /\ DOMAIN p.globalStyles = TokenGroups
                       /\ \A g \in TokenGroups :
                              p.globalStyles[g] = IF g \in DOMAIN tokens THEN tokens[g] ELSE <<>>
                /\ f = "html" =>
                       /\ Cardinality(PositionsOf(p, HtmlDocAfterTitle)) = 1
                       /\ Cardinality(PositionsOf(p, HtmlDocAfterVariables)) = 1
                       /\ "colors" \notin DOMAIN tokens => RootBlock(p) = <<>>
                /\ inv[i].status = "failed" => inv[i].error = StorageError

\* C12 amended: an export with designTokens = {} succeeds in each of the four
\* formats; figma, webflow and HTML read an absent group as the empty
\* mapping (figma styles [], webflow globalStyles with three groups, an
\* empty :root block in the HTML), framer embeds the designTokens object as
\* given, an absent group staying absent; the only failure of an export is
\* a failure of its storage write.
C12_TokenDefaulting ==
    \A i \in 1..MaxInv :
        Started(i) =>
            LET tokens == inv[i].input.designTokens
                p == PayloadOf(i)
                f == inv[i].format
            IN  /\ f = "framer" =>
                       /\ "designTokens" \in DOMAIN p
                       /\ p.designTokens = tokens
                       /\ DOMAIN tokens = {} => DOMAIN p.designTokens = {}
                /\ f = "figma" =>
                       /\ "styles" \in DOMAIN p
                       /\ "colors" \notin DOMAIN tokens => p.styles = <<>>
                /\ f = "webflow" =>
                       /\ DOMAIN p.globalStyles = TokenGroups
                       /\ \A g \in TokenGroups :
                              p.globalStyles[g] = IF g \in DOMAIN tokens THEN tokens[g] ELSE <<>>
                /\ f = "html" =>
                       /\ Cardinality(PositionsOf(p, HtmlDocAfterTitle)) = 1
                       /\ Cardinality(PositionsOf(p, HtmlDocAfterVariables)) = 1
                       /\ "colors" \notin DOMAIN tokens => RootBlock(p) = <<>>
                /\ inv[i].status = "failed" => inv[i].error = StorageError

\* a webflow and an HTML export of a design without any token group have
\* both completed, the webflow payload holding three empty groups
C12_Witness ==
    /\ inv[1].status = "done" /\ inv[1].format = "webflow"
    /\ inv[2].status = "done" /\ inv[2].format = "html"
    /\ DOMAIN inv[1].input.designTokens = {}
    /\ DOMAIN inv[2].input.designTokens = {}
    /\ storage[inv[1].fileKey].data.globalStyles.colors = <<>>
    /\ DOMAIN inv[1].result = ExportResultFields

\* the FRAME nodes of a figma payload
FramesOf(p) == p.document.children[1].children

\* C13: the FRAME of a component stands at the component's (x, y) unchanged
\* and measures (width * 10, height * 10): a component 100 wide and 400 high
\* gives a frame 1000 wide and 4000 high.
C13_NodeDocumentGeometry ==
    \A i \in 1..MaxInv :
        (Started(i) /\ inv[i].format = "figma") =>
            LET comps == inv[i].input.components
                frames == FramesOf(PayloadOf(i))
            IN  /\ Len(frames) = Len(comps)
                /\ \A k \in 1..Len(comps) :
                       /\ frames[k].type = "FRAME"
                       /\ frames[k].x = comps[k].x
                       /\ frames[k].y = comps[k].y
                       /\ frames[k].width = comps[k].width * 10
                       /\ frames[k].height = comps[k].height * 10

\* a component 100 wide and 400 high became a frame 1000 wide and 4000
\* high, and one at (10, 20) stayed at (10, 20)
C13_Witness ==
    /\ Started(1) /\ inv[1].format = "figma"
    /\ inv[1].input.components = <<HeroComponent, TextComponent>>
    /\ FramesOf(PayloadOf(1))[1].width = 1000
    /\ FramesOf(PayloadOf(1))[1].height = 4000
    /\ FramesOf(PayloadOf(1))[2].x = 10
    /\ FramesOf(PayloadOf(1))[2].y = 20
    /\ FramesOf(PayloadOf(1))[2].width = 500

\* the solid paint of a colour string: its three decoded channels over 255
DecodedPaint(color) ==
    [r |-> [num |-> hexToRgb(color).r, den |-> 255],
     g |-> [num |-> hexToRgb(color).g, den |-> 255],
     b |-> [num |-> hexToRgb(color).b, den |-> 255],
     a |-> 1]

\* text is the content; there is exactly one locale: English, default, 'en'.
C15_CmsPageStructure ==
    \A i \in 1..MaxInv :
        (Started(i) /\ inv[i].format = "webflow") =>
            LET comps == inv[i].input.components
                p == PayloadOf(i)
            IN  /\ Len(p.pages) = 1
                /\ p.pages[1].name = "Home"
                /\ p.pages[1].slug = "index"
                /\ Len(p.pages[1].children) = Len(comps)
                /\ \A k \in 1..Len(comps) :
                       LET child == p.pages[1].children[k]
                           comp == comps[k]
                       IN  /\ child.tag = "div"
                           /\ child.text = comp.title
                           /\ child.classes
                                  = << <<"c","o","m","p","o","n","e","n","t","-">> \o comp.type >>
                           /\ child.style.backgroundColor = comp.bgColor
                           /\ child.style.color = comp.textColor
                           /\ child.style.width = NumberToString(comp.width) \o <<"%">>
                           /\ child.style.height = NumberToString(comp.height) \o <<"p", "x">>
                           /\ child.style.left = NumberToString(comp.x) \o <<"%">>
                           /\ child.style.top = NumberToString(comp.y) \o <<"p", "x">>
                           /\ child.style.position = "relative"
                           /\ Len(child.children) = 1
                           /\ child.children[1].tag = "p"
                           /\ child.children[1].text = comp.content
                /\ Len(p.cmsLocales) = 1
                /\ p.cmsLocales[1].name = "English"
                /\ p.cmsLocales[1].default = TRUE
                /\ p.cmsLocales[1].code = "en"

\* a webflow export of two components has a page of two div children, the
\* second one 100% wide, 400px high, at left 0%, top 0px
C15_Witness ==
    /\ Started(1) /\ inv[1].format = "webflow"
    /\ inv[1].input.components = <<TextComponent, HeroComponent>>
    /\ Len(PayloadOf(1).pages[1].children) = 2
    /\ PayloadOf(1).pages[1].children[1].style.width = <<"5", "0", "%">>
    /\ PayloadOf(1).pages[1].children[1].style.left = <<"1", "0", "%">>
    /\ PayloadOf(1).pages[1].children[2].style.height = <<"4", "0", "0", "p", "x">>
    /\ PayloadOf(1).pages[1].children[2].children[1].text = <<"Q", "&", "A">>

\* C17: an export of an empty component list completes in each of the four
\* formats as any other export does (one storage write, the full result)
\* and its lists are empty: framer components [] and frame children [],
\* figma canvas children [], webflow page children [], no section in the
\* HTML.
C17_EmptyDesign ==
    \A i \in 1..MaxInv :
        (Started(i) /\ inv[i].input.components = <<>>) =>
            LET p == PayloadOf(i)
                f == inv[i].format
            IN  /\ f = "framer" => p.components = <<>> /\ p.frames[1].children = <<>>
                /\ f = "figma" => FramesOf(p) = <<>>
                /\ f = "webflow" => p.pages[1].children = <<>>
                /\ f = "html" =>
                       /\ PositionsOf(p, SectionOpen) = {}
                       /\ TextBetween(p, 1, HtmlDocAfterVariables, HtmlDocTail) = <<>>
                /\ Cardinality(PutsBy(i)) = 1
                /\ inv[i].status = "failed" => inv[i].error = StorageError
                /\ inv[i].status = "done" =>
                       /\ DOMAIN inv[i].result = ExportResultFields
                       /\ inv[i].fileKey \in DOMAIN storage
                       /\ storage[inv[i].fileKey].data = p

\* an HTML and a figma export of the empty component list have both
\* completed and were stored
C17_Witness ==
    /\ inv[1].status = "done" /\ inv[1].format = "html"
    /\ inv[2].status = "done" /\ inv[2].format = "figma"
    /\ inv[1].input.components = <<>> /\ inv[2].input.components = <<>>
    /\ Cardinality(DOMAIN storage) = 2
    /\ FramesOf(storage[inv[2].fileKey].data) = <<>>

\* the name of a format as text
FormatText(format) ==
    CASE format = "framer"  -> <<"f", "r", "a", "m", "e", "r">>
      [] format = "figma"   -> <<"f", "i", "g", "m", "a">>
      [] format = "webflow" -> <<"w", "e", "b", "f", "l", "o", "w">>
      [] format = "html"    -> <<"h", "t", "m", "l">>

\* the extension of the stored object of a format
ExtensionText(format) ==
    IF format = "html" THEN <<".", "h", "t", "m", "l">> ELSE <<".", "j", "s", "o", "n">>

\* key is 'exports/<projectName>/<format>-<id><extension>' for one id
IsExportKey(key, format, projectName) ==
    LET before == <<"e", "x", "p", "o", "r", "t", "s", "/">> \o projectName \o <<"/">>
                      \o FormatText(format) \o <<"-">>
        after == ExtensionText(format)
    IN  /\ Len(key) = Len(before) + 1 + Len(after)
        /\ SubSeq(key, 1, Len(before)) = before
        /\ SubSeq(key, Len(before) + 2, Len(key)) = after

\* C18: an export in format f writes under the key
\* 'exports/<projectName>/<f>-<uniqueId>.json' with content type
\* 'application/json' (html: '...html-<uniqueId>.html', 'text/html'); its
\* result has format f, fileName '<projectName>-<f>.json' (html:
\* '<projectName>.html'), fileKey the key written and url the url storage
\* returned; the project name is embedded as given.
C18_ResultDescriptor ==
    \A i \in 1..MaxInv :
        Started(i) =>
            LET f == inv[i].format
                name == inv[i].input.projectName
            IN  /\ \A k \in PutsBy(i) :
                       /\ IsExportKey(puts[k].key, f, name)
                       /\ puts[k].contentType
                              = IF f = "html" THEN "text/html" ELSE "application/json"
                       /\ inv[i].status = "done" =>
                              /\ inv[i].result.fileKey = puts[k].key
                              /\ inv[i].result.url = StorageUrl(puts[k].key)
                              /\ puts[k].key \in DOMAIN storage
                              /\ storage[puts[k].key].contentType = puts[k].contentType
                /\ inv[i].status = "done" =>
                       /\ inv[i].result.format = f
                       /\ inv[i].result.fileName
                              = IF f = "html" THEN name \o <<".", "h", "t", "m", "l">>
                                ELSE name \o <<"-">> \o FormatText(f) \o <<".", "j", "s", "o", "n">>

\* an HTML and a webflow export of the project 'My Site' have completed; the
\* name stands in key and file name with its space
C18_Witness ==
    /\ inv[1].status = "done" /\ inv[1].format = "html"
    /\ inv[2].status = "done" /\ inv[2].format = "webflow"
    /\ inv[1].input.projectName = <<"M", "y", " ", "S", "i", "t", "e">>
    /\ inv[2].input.projectName = <<"M", "y", " ", "S", "i", "t", "e">>
    /\ inv[1].result.fileName = <<"M", "y", " ", "S", "i", "t", "e", ".", "h", "t", "m", "l">>
    /\ SubSeq(inv[2].result.fileKey, 1, 16)
           = <<"e", "x", "p", "o", "r", "t", "s", "/", "M", "y", " ", "S", "i", "t", "e", "/">>
    /\ storage[inv[1].fileKey].contentType = "text/html"

(***************************************************************************)
(* Properties of the markup of exportToHTML                                *)
(***************************************************************************)
\* the positions where the characters of word stand one after another
CharOccurrences(text, word) ==
    {k \in 1..(Len(text) - Len(word) + 1) : SubSeq(text, k, k + Len(word) - 1) = word}

\* the positions where a <section> element starts: the piece of the
\* template that opens a section, or the characters '<section' themselves
SectionStarts(html) ==
    PositionsOf(html, SectionOpen)
        \cup CharOccurrences(html, <<"<", "s", "e", "c", "t", "i", "o", "n">>)

\* what follows 'component component-' in the class attribute of the
\* section opened at position from: the text up to the next double quote
ClassSuffix(html, from) ==
    LET quotes == {k \in (from + 1)..Len(html) : html[k] \in {"\"", SectionStyleBg}}
        to == CHOOSE k \in quotes : \A m \in quotes : k <= m
    IN  SubSeq(html, from + 1, to - 1)

\* C16 as stated: the HTML document holds exactly one <section> element per
\* input component, in input order, the i-th with the class
\* 'component component-<type of the i-th component>'.
C16_MarkupSections ==
    \A i \in 1..MaxInv :
        (Started(i) /\ inv[i].format = "html") =>
            LET comps == inv[i].input.components
                html == PayloadOf(i)
            IN  /\ Cardinality(SectionStarts(html)) = Len(comps)
                /\ \A n \in 1..Len(comps) :
                       LET at == NthOf(SectionStarts(html), n)
                       IN  /\ html[at] = SectionOpen
                           /\ ClassSuffix(html, at) = comps[n].type

(***************************************************************************)
(* Properties of the projects procedures                                   *)
(***************************************************************************)
\* whatever step a call of a projects procedure takes, the projects of the
\* other users stay as they are, and the call, if it names one of them, has
\* failed with NOT_FOUND; a list holds the caller's projects and no others
IsolationStep ==
    \A c \in 1..MaxCalls :
        calls'[c].status # calls[c].status =>
            /\ \A pid \in DOMAIN db.projects :
                   db.projects[pid].userId # calls'[c].user =>
                       /\ pid \in DOMAIN db'.projects
                       /\ db'.projects[pid] = db.projects[pid]
                       /\ (calls'[c].proc \in {"projects.get", "projects.update",
                                               "projects.delete"}
                               /\ calls'[c].projectId = pid) =>
                              /\ calls'[c].status = "failed"
                              /\ calls'[c].error.code = "NOT_FOUND"
                              /\ resp'.kind = "error"
                              /\ resp'.error.code = "NOT_FOUND"
            /\ calls'[c].proc = "projects.list" =>
                   /\ \A row \in resp'.value : row.userId = resp'.user
                   /\ \A pid \in DOMAIN db.projects :
                          db.projects[pid].userId = resp'.user =>
                              db.projects[pid] \in resp'.value

\* C20: in every sequence of calls by several users, projects.get,
\* projects.update and projects.delete called on a project of another user
\* fail with NOT_FOUND and leave that project as it was, and projects.list
\* returns the caller's own projects and no others.
C20_ProjectIsolation == [][IsolationStep]_vars

\* user 2 has just been refused the update of a project that user 1 has
\* published; the project is still there as user 1 left it
C20_Witness ==
    /\ resp.proc = "update" /\ resp.user = 2 /\ resp.projectId = 1
    /\ resp.kind = "error" /\ resp.error.code = "NOT_FOUND"
    /\ calls[1].proc = "projects.update" /\ calls[1].status = "done"
    /\ 1 \in DOMAIN db.projects
    /\ db.projects[1].userId = 1
    /\ db.projects[1].status = "published"

(***************************************************************************)
(* Further properties of the figma and framer payloads                     *)
(***************************************************************************)
\* C21: the FRAME of the component at index i (from 0) has the id 'i:0' and
\* its only child, a TEXT node, the id 'i:1', whatever the id of the
\* component is; so two exports of equally long lists carry the same node
\* ids; the TEXT node holds the content as given, not escaped.
C21_NodeIdsByPosition ==
    \A i \in 1..MaxInv :
        (Started(i) /\ inv[i].format = "figma") =>
            LET comps == inv[i].input.components
                frames == FramesOf(PayloadOf(i))
            IN  /\ \A k \in 1..Len(comps) :
                       /\ frames[k].id = NumberToString(k - 1) \o <<":", "0">>
                       /\ Len(frames[k].children) = 1
                       /\ frames[k].children[1].type = "TEXT"
                       /\ frames[k].children[1].id = NumberToString(k - 1) \o <<":", "1">>
                       /\ frames[k].children[1].characters = comps[k].content
                /\ \A j \in 1..MaxInv :
                       (Started(j) /\ inv[j].format = "figma"
                            /\ Len(inv[j].input.components) = Len(comps)) =>
                           \A k \in 1..Len(comps) :
                               /\ FramesOf(PayloadOf(j))[k].id = frames[k].id
                               /\ FramesOf(PayloadOf(j))[k].children[1].id
                                      = frames[k].children[1].id

\* the same two components were exported to figma in both orders: the
\* component 'c2' is frame '0:0' in one export and frame '1:0' in the other,
\* and its text node holds the quotes of its content
C21_Witness ==
    /\ Started(1) /\ inv[1].format = "figma"
    /\ Started(2) /\ inv[2].format = "figma"
    /\ inv[1].input.components = <<TextComponent, HeroComponent>>
    /\ inv[2].input.components = <<HeroComponent, TextComponent>>
    /\ FramesOf(PayloadOf(1))[1].id = <<"0", ":", "0">>
    /\ FramesOf(PayloadOf(2))[2].id = <<"1", ":", "0">>
    /\ FramesOf(PayloadOf(2))[2].children[1].id = <<"1", ":", "1">>
    /\ FramesOf(PayloadOf(1))[1].children[1].characters = <<"\"", "h", "i", "'">>

\* C22: the framer payload has exactly one frame, 1440 wide and 400 * n high
\* for n components (0 for none), whatever the components' own width,
\* height, x, y and properties are.
C22_FrameSize ==
    \A i \in 1..MaxInv :
        (Started(i) /\ inv[i].format = "framer") =>
            LET p == PayloadOf(i)
            IN  /\ Len(p.frames) = 1
                /\ p.frames[1].width = 1440
                /\ p.frames[1].height = 400 * Len(inv[i].input.components)

\* a framer export of two components 400 and 30 high has a frame 800 high,
\* and one of no component has completed with a frame 0 high
C22_Witness ==
    /\ Started(1) /\ inv[1].format = "framer"
    /\ inv[2].status = "done" /\ inv[2].format = "framer"
    /\ Len(inv[1].input.components) = 2
    /\ inv[1].input.components[1].height + inv[1].input.components[2].height = 430
    /\ PayloadOf(1).frames[1].height = 800
    /\ inv[2].input.components = <<>>
    /\ storage[inv[2].fileKey].data.frames[1].height = 0

\* the ids of all nodes of a figma document, in tree order
NodeIds(p) ==
    LET frames == FramesOf(p)
        RECURSIVE Ids(_)
        Ids(k) == IF k = 0 THEN <<>>
                  ELSE Ids(k - 1) \o <<frames[k].id>>
                           \o [m \in 1..Len(frames[k].children) |-> frames[k].children[m].id]
    IN  <<p.document.id, p.document.children[1].id>> \o Ids(Len(frames))

\* C24 as stated: in every figma payload the ids of the DOCUMENT node, the
\* CANVAS node and all FRAME and TEXT nodes are pairwise distinct.
C24_NodeIdsDistinct ==
    \A i \in 1..MaxInv :
        (Started(i) /\ inv[i].format = "figma") =>
            LET ids == NodeIds(PayloadOf(i))
            IN  \A a, b \in 1..Len(ids) : a # b => ids[a] # ids[b]

\* the components with their properties emptied
WithoutProperties(components) ==
    [k \in 1..Len(components) |-> [components[k] EXCEPT !.properties = <<>>]]

\* C30: whatever keys the properties of a component hold ('id', 'name',
\* 'type' and 'children' included), the descriptor's id, name, type and
\* children, the descriptors of the other components and the frame are
\* those of the same export with empty properties; properties show in
\* props alone.
C30_PropertiesConfined ==
    \A i \in 1..MaxInv :
        (Started(i) /\ inv[i].format = "framer") =>
            LET comps == inv[i].input.components
                p == PayloadOf(i)
                bare == FramerConfig(WithoutProperties(comps), inv[i].input.designTokens,
                                     inv[i].input.projectName, p.metadata.exportedAt)
            IN  /\ p.frames = bare.frames
                /\ Len(p.components) = Len(comps)
                /\ \A k \in 1..Len(comps) :
                       /\ DOMAIN p.components[k] = {"id", "name", "type", "props", "children"}
                       /\ p.components[k].id = comps[k].id
                       /\ p.components[k].name = comps[k].title
                       /\ p.components[k].type = comps[k].type
                       /\ p.components[k].children = <<>>
                       /\ DOMAIN comps[k].properties = {} =>
                              p.components[k] = bare.components[k]

\* a component whose properties hold 'id', 'name', 'type' and 'children'
\* was exported to framer next to one without properties; the keys are in
\* its props, its descriptor still carries the component's own id
C30_Witness ==
    /\ Started(1) /\ inv[1].format = "framer"
    /\ inv[1].input.components = <<HeroComponent, TextComponent>>
    /\ {"id", "name", "type", "children"} \subseteq DOMAIN TextComponent.properties
    /\ PayloadOf(1).components[2].props.id = <<"p", "1">>
    /\ PayloadOf(1).components[2].id = <<"c", "2">>
    /\ PayloadOf(1).components[1].props.width = 100

(***************************************************************************)
(* Further properties of the export procedures of the router               *)
(***************************************************************************)
\* C23 as stated: an export procedure hands a payload to storage, and
\* records an export, only for a design that belongs to the project named
\* by projectId, that project being owned by the caller.
C23_ExportOwnership ==
    /\ \A c \in 1..MaxCalls :
           (calls[c].format # "none" /\ PutsOfCall(c) # {}) =>
               /\ \A project \in calls[c].project : project.userId = calls[c].user
               /\ \A design \in calls[c].design : design.projectId = calls[c].projectId
    /\ \A k \in 1..Len(db.exports) :
           \A design \in getDesignById(db.exports[k].designId) :
               design.projectId = db.exports[k].projectId

\* every export record names an object that is in storage under its
\* fileKey, with the url storage gave for it, and a failed call has none
RecordsAreStored ==
    /\ \A k \in 1..Len(db.exports) :
           /\ db.exports[k].fileKey \in DOMAIN storage
           /\ db.exports[k].fileUrl = StorageUrl(db.exports[k].fileKey)
    /\ \A c \in 1..MaxCalls :
           calls[c].status = "failed" =>
               \A k \in 1..Len(db.exports) : db.exports[k].fileKey # calls[c].fileKey

\* a record is added only by a call whose write has been stored before
RecordAfterWrite ==
    db'.exports # db.exports =>
        /\ Len(db'.exports) = Len(db.exports) + 1
        /\ SubSeq(db'.exports, 1, Len(db.exports)) = db.exports
        /\ LET row == db'.exports[Len(db'.exports)]
           IN  /\ row.fileKey \in DOMAIN storage
               /\ \E c \in 1..MaxCalls :
                      /\ calls[c].status = "stored" /\ calls'[c].status = "inserted"
                      /\ calls[c].fileKey = row.fileKey
                      /\ \E k \in PutsOfCall(c) : puts[k].key = row.fileKey

\* C26: in every export procedure of the router the export record is
\* created only once storagePut has stored the object of the same fileKey;
\* in every reachable state the fileKey and fileUrl of each record name an
\* object in storage; a call whose storagePut failed leaves no record.
C26_StorageBeforeRecord == [](RecordsAreStored) /\ [][RecordAfterWrite]_vars

\* one call has stored and recorded its export, another has failed at its
\* write and left neither object nor record
C26_Witness ==
    /\ calls[1].status = "done" /\ calls[2].status = "failed"
    /\ PutsOfCall(2) # {}
    /\ Len(db.exports) = 1
    /\ db.exports[1].fileKey = calls[1].fileKey
    /\ calls[1].fileKey \in DOMAIN storage
    /\ calls[2].fileKey \notin DOMAIN storage

(***************************************************************************)
(* Further properties of the markup and of ExportPanel                     *)
(***************************************************************************)
\* C25 as stated: no value taken from the input (type, bgColor, textColor,
\* names and values of colour tokens) brings a literal '<', '>' or '"'
\* into the HTML document, so the opening tag of every section has the two
\* attributes class and style and no other.  In the document every
\* character that is not part of a template piece is a character of its own.
C25_NoMarkupInjection ==
    \A i \in 1..MaxInv :
        (Started(i) /\ inv[i].format = "html") =>
            LET html == PayloadOf(i)
            IN  /\ \A k \in 1..Len(html) : html[k] \notin {"<", ">", "\""}
                /\ \A n \in 1..Cardinality(PositionsOf(html, SectionOpen)) :
                       \A k \in 1..Len(TextBetween(html, n, SectionOpen, SectionAfterTag)) :
                           TextBetween(html, n, SectionOpen, SectionAfterTag)[k]
                               \notin {" ", "=", "\"", "<", ">"}

\* no mutation is pending while isExporting is null, and never more than one
OnePending ==
    /\ Len(panel.pending) <= 1
    /\ panel.isExporting = "null" => panel.pending = <<>>
    /\ \A m \in 1..Len(panel.pending) : panel.isExporting = panel.pending[m].format

\* a mutation that settles puts isExporting back to null
SettlesToNull ==
    Len(panel'.pending) < Len(panel.pending) => panel'.isExporting = "null"

\* C27: at most one export mutation started from the panel is pending at
\* any time, and whenever a pending mutation settles, with success or with
\* error, isExporting is null again, so that handleExport can be reached
\* anew.
C27_InFlightProtocol == [](OnePending) /\ [][SettlesToNull]_vars

\* a first export has failed, a second has succeeded, a third is pending
C27_Witness ==
    /\ Len(panel.toasts) = 2
    /\ panel.toasts[1].kind = "error" /\ panel.toasts[2].kind = "success"
    /\ Len(panel.pending) = 1
    /\ panel.pending[1].request = 3
    /\ panel.isExporting = panel.pending[1].format

(***************************************************************************)
(* Properties of EnhancedEditor                                            *)
(***************************************************************************)
\* C28 as stated: after any sequence of add, delete, mouse-down, change and
\* generation-success events selectedComponent is null or the id of a
\* component that is in designState.components.
C28_SelectionPresent ==
    \/ editor.selectedComponent = "null"
    \/ \E k \in 1..Len(editor.components) :
           editor.components[k].id = editor.selectedComponent

(***************************************************************************)
(* Properties of the assets procedures                                     *)
(***************************************************************************)
\* an asset that the step removed belonged to a project of the caller
OwnAssetsOnly ==
    \A aid \in DOMAIN db.assets :
        aid \notin DOMAIN db'.assets =>
            /\ resp'.proc = "assets.delete"
            /\ \E project \in createdProject(db.assets[aid].projectId) :
                   project.userId = resp'.user

\* C29 as stated: in every sequence of calls by several users, assets.delete
\* removes an asset only when the asset belongs to a project the caller
\* owns.
C29_AssetOwnership == [][OwnAssetsOnly]_vars

====
